---- MODULE Spec2Model ----
(***************************************************************************)
(* Model of the ecoaccounts indexer core (src/core/src): the range         *)
(* decorator, the retry executor, the adaptive chunk manager, the          *)
(* supervisor run_indexer, the follower loop run_indexer_and_follow and    *)
(* the control API handlers.                                               *)
(*                                                                         *)
(* Modelling decisions:                                                    *)
(*  - database statements succeed; one statement is one atomic step;       *)
(*  - a strategy task (spawned closure of run_indexer) is one atomic step: *)
(*    tasks of one chunk touch disjoint rows, and the chunk manager        *)
(*    callbacks are applied in the order the tasks finish;                 *)
(*  - should_interrupt is one atomic read;                                 *)
(*  - an API handler is two steps (its lock section and its atomic store   *)
(*    on the paused flag), one request being in flight at a time.          *)
(***************************************************************************)
EXTENDS Integers, Sequences, FiniteSets, TLC

Min(a, b) == IF a <= b THEN a ELSE b
Max(a, b) == IF a >= b THEN a ELSE b

(***************************************************************************)
(* Configuration of the deployment.                                        *)
(***************************************************************************)
\* StrategyConfig.force_reindex as configured (STRAT_<NAME>_REINDEX)
force_reindex == [s \in {"s1", "s2"} |-> FALSE]
\* confirmations argument of run_indexer_and_follow (src/src/main.rs)
Confirmations == 4
\* IndexerConfig::new: min chunk
MinChunk == 100
\* AdaptiveChunkManager::new: growth_threshold
growth_threshold == 5
\* RetryConfig::default: max_retries
max_retries == 5
\* RetryConfig::default: initial_delay_ms, max_delay_ms, backoff_multiplier
initial_delay_ms == 500
max_delay_ms == 30000
backoff_multiplier == 2

(***************************************************************************)
(* Bounds of the model.                                                    *)
(***************************************************************************)
\* The follower specification runs a deployment of one strategy with chunks
\* of one block and low block numbers; the supervisor specification runs two
\* strategies with chunks of a hundred blocks, where the chunk manager grows
\* and halves the size.
\* the follower deployment: strategies, from_block, chunk_size
FollowNames == <<"s1">>
FollowFrom == [s \in {"s1"} |-> 1]
FollowChunk == 1
\* chain heads the provider may report
MaxHeadIdx == 1
Heads == {8 - i : i \in 0..MaxHeadIdx}
\* request bodies of POST /api/reindex: 0 stands for an absent from / to,
\* "" for an absent strategy
ReindexBodies ==
  { [from |-> 0, to |-> 2, strategy |-> ""],
    [from |-> 1, to |-> 0, strategy |-> "zz"],
    [from |-> 3, to |-> 2, strategy |-> ""] }
\* the reindex deployments: two strategies s1 and s2 with chunks of two
\* blocks and one chain head; from_block is low (the follower has blocks to
\* follow) or beyond the confirmed head (it has none)
TwoNames == <<"s1", "s2">>
TwoFrom == [s \in {"s1", "s2"} |-> IF s = "s1" THEN 1 ELSE 2]
LateFrom == [s \in {"s1", "s2"} |-> IF s = "s1" THEN 5 ELSE 6]
TwoChunk == 2
TwoHeads == {7}
\* the request bodies: the one that is rejected, and the sets of bodies a
\* deployment receives
RejectedBody == [from |-> 3, to |-> 2, strategy |-> ""]
AcceptedBodies ==
  { [from |-> 0, to |-> 0, strategy |-> "s2"],
    [from |-> 1, to |-> 3, strategy |-> ""],
    [from |-> 5, to |-> 0, strategy |-> "s1"],
    [from |-> 1, to |-> 0, strategy |-> "zz"] }
OverwriteBodies ==
  { [from |-> 0, to |-> 0, strategy |-> "s2"],
    [from |-> 1, to |-> 0, strategy |-> "zz"] }
ReindexDeployments ==
  {[from_block |-> TwoFrom, bodies |-> {b, RejectedBody}] : b \in AcceptedBodies}
    \cup {[from_block |-> LateFrom,
            bodies |-> {[from |-> 0, to |-> 0, strategy |-> ""], RejectedBody}],
           [from_block |-> LateFrom,
            bodies |-> {[from |-> 5, to |-> 0, strategy |-> "s2"], RejectedBody}],
           [from_block |-> TwoFrom, bodies |-> OverwriteBodies]}
\* the supervisor deployment: strategies, from_block, chunk_size
RunNames == <<"s1", "s2">>
RunFromBlock == [s \in {"s1", "s2"} |-> IF s = "s1" THEN 10 ELSE 130]
RunChunk == 100
\* arguments <<from, to>> of the supervisor calls: ranges of several blocks,
\* and the pairs with from > to that run_indexer rejects
RunPoints == {11, 136, 261}
RunRanges == {ft \in RunPoints \X RunPoints : ft[1] # ft[2]}
\* arguments from / to of the decorator calls, and the tables they start from
DecPoints == {10, 20, 80, 100, 200, 300}
DecTables ==
  { {}, {[name |-> "s1", from_block |-> 10, to_block |-> 100]},
    {[name |-> "s1", from_block |-> 20, to_block |-> 80],
     [name |-> "s2", from_block |-> 10, to_block |-> 300]} }
\* run_indexer calls of one behaviour of the supervisor specification
MaxCalls == 2
\* ... and in the specification with fairness
FairCalls == 1
\* RetryConfig values handed to with_retry, and what the operation returns
\* on one attempt
RetryInitialDelays == {0, initial_delay_ms, 50000}
RetryMaxDelays == {1000, max_delay_ms}
RetryMultipliers == {0, 1, backoff_multiplier, 3}
RetryOutcomes == {"ok", "503 service unavailable", "bad request: malformed"}
\* initial_chunk_size of the chunk managers
ChunkInitials == {100, 1000}
\* ... and of the chunk managers shared by concurrent tasks
SharedInitials == {60, 100, 120}
\* consecutive_successes is unbounded at the ceiling; values >= SuccCap are merged
SuccCap == 5

(***************************************************************************)
(* Interval sets (history variables only).                                 *)
(***************************************************************************)
SetMin(S) == CHOOSE x \in S : \A y \in S : x <= y
SetMax(S) == CHOOSE x \in S : \A y \in S : x >= y
\* the set of intervals S with [lo, hi] added, touching intervals merged
AddIv(S, lo, hi) ==
  LET touch == {iv \in S : iv[1] <= hi + 1 /\ lo <= iv[2] + 1}
      nlo == SetMin({lo} \cup {iv[1] : iv \in touch})
      nhi == SetMax({hi} \cup {iv[2] : iv \in touch})
  IN (S \ touch) \cup {<<nlo, nhi>>}
InIv(S, b) == \E iv \in S : iv[1] <= b /\ b <= iv[2]
\* every block of [lo, hi] lies in some interval of S (S is kept merged)
CoversIv(S, lo, hi) == lo > hi \/ \E iv \in S : iv[1] <= lo /\ hi <= iv[2]

(***************************************************************************)
(* resilience.rs: error classification.  Errors are representative         *)
(* messages; the tables give the result of the substring tests on them.    *)
(***************************************************************************)
E503 == "503 service unavailable"
ETimeout == "request timeout"
ETooLarge == "block range is too large"
EMalformed == "bad request: malformed"
EResponseSize == "response size exceeded"
Errors == {E503, ETimeout, ETooLarge, EMalformed}

\* faulty variant: every error is retried
is_retryable_always(e) == TRUE

is_retryable_error(e) == e \in {E503, ETimeout}
is_chunk_size_error(e) == e \in {ETimeout, ETooLarge, EResponseSize}

(***************************************************************************)
(* resilience.rs: AdaptiveChunkManager.  cm = [current, succ].             *)
(***************************************************************************)
\* IndexerConfig::new(initial_chunk_size)
IndexerConfigNew(initial) ==
  [current |-> initial, succ |-> 0, min |-> MinChunk, max |-> initial * 2,
   initial |-> initial]

\* ((old as f64) * 1.25) as u64, .min(self.max)
grown_size(old, max) == Min((old * 125) \div 100, max)

\* faulty variant: the halved size is not held at min
halved_size_unfloored(old, min) == old \div 2

\* (old / 2).max(self.min)
halved_size(old, min) == Max(old \div 2, min)

\* faulty variant: grows and resets without testing that the size changes
on_success_unguarded(m) ==
  LET s == m.succ + 1
      old == m.current
      new == Min((old * 125) \div 100, m.max)
  IN IF s >= growth_threshold
       THEN [m EXCEPT !.current = new, !.succ = 0]
       ELSE [m EXCEPT !.succ = Min(s, SuccCap)]

on_success(m) ==
  LET s == m.succ + 1
      old == m.current
      new == Min((old * 125) \div 100, m.max)
  IN IF s >= growth_threshold /\ new > old
       THEN [m EXCEPT !.current = new, !.succ = 0]
       ELSE [m EXCEPT !.succ = Min(s, SuccCap)]

\* faulty variant: the manager ignores every error
on_rpc_error_ignored(m, e) == m

on_rpc_error(m, e) ==
  LET old == m.current
      new == Max(old \div 2, m.min)
  IN IF is_chunk_size_error(e) /\ new < old
       THEN [m EXCEPT !.current = new, !.succ = 0]
       ELSE m

(***************************************************************************)
(* strategies.rs: indexed_ranges table and IndexedRangeDecorator.          *)
(* rows is a set of records [name, from_block, to_block].                  *)
(***************************************************************************)
RowsOf(rows, name) == {r \in rows : r.name = name}

\* faulty variant of the range check: an overlap passes for containment
CoveredOverlap(rows, name, from, to) ==
  \E r \in RowsOf(rows, name) : from <= r.to_block /\ to >= r.from_block

\* SELECT from_block, to_block ... WHERE strategy_name = $1 ; range check
Covered(rows, name, from, to) ==
  \E r \in RowsOf(rows, name) : from >= r.from_block /\ to <= r.to_block

\* faulty variant of the upsert: no conflict target, every call adds a row
UpsertInsert(rows, name, from, to) ==
  rows \cup {[name |-> name, from_block |-> from, to_block |-> to]}

\* faulty variant of the upsert: the row is overwritten with the new range
UpsertReplace(rows, name, from, to) ==
  {r \in rows : r.name # name}
    \cup {[name |-> name, from_block |-> from, to_block |-> to]}

\* INSERT ... ON CONFLICT (strategy_name) DO UPDATE SET LEAST / GREATEST
Upsert(rows, name, from, to) ==
  IF RowsOf(rows, name) = {}
    THEN rows \cup {[name |-> name, from_block |-> from, to_block |-> to]}
    ELSE {IF r.name = name
            THEN [name |-> name,
                  from_block |-> Min(r.from_block, from),
                  to_block |-> Max(r.to_block, to)]
            ELSE r : r \in rows}

\* faulty variant of the decorator: the row is written before the inner
\* processor has answered
processWriteFirst(rows, name, from, to, force, inner) ==
  IF ~force /\ Covered(rows, name, from, to)
    THEN [ok |-> TRUE, err |-> "", invoked |-> 0, on |-> <<0, 0>>,
          stats |-> "default", rows |-> rows]
  ELSE [ok |-> inner = "ok", err |-> IF inner = "ok" THEN "" ELSE inner,
        invoked |-> 1, on |-> <<from, to>>,
        stats |-> IF inner = "ok" THEN "inner" ELSE "none",
        rows |-> Upsert(rows, name, from, to)]

\* IndexedRangeDecorator::process; inner is what the inner processor returns
\* when invoked: "ok" or an error message.  The result tells how many times
\* and on which range the inner processor was invoked, and which Stats are
\* returned: Stats::default() or those of the inner processor.
process(rows, name, from, to, force, inner) ==
  IF ~force /\ Covered(rows, name, from, to)
    THEN [ok |-> TRUE, err |-> "", invoked |-> 0, on |-> <<0, 0>>,
          stats |-> "default", rows |-> rows]
  ELSE IF inner # "ok"
    THEN [ok |-> FALSE, err |-> inner, invoked |-> 1, on |-> <<from, to>>,
          stats |-> "none", rows |-> rows]
  ELSE [ok |-> TRUE, err |-> "", invoked |-> 1, on |-> <<from, to>>,
        stats |-> "inner", rows |-> Upsert(rows, name, from, to)]

(***************************************************************************)
(* resilience.rs: with_retry around the decorator.  script[i] is what the  *)
(* inner processor returns on attempt i.  Returns the final result, the    *)
(* number of attempts, whether the inner processor succeeded, and the      *)
(* ranges on which it was invoked over the attempts.                       *)
(***************************************************************************)
RECURSIVE with_retry(_, _, _, _, _, _, _)
with_retry(script, attempt, rows, name, from, to, force) ==
  LET r == process(rows, name, from, to, force, script[attempt])
      on == IF r.invoked = 1 THEN {r.on} ELSE {}
  IN IF r.ok
       THEN [ok |-> TRUE, err |-> "", rows |-> r.rows, attempts |-> attempt,
             innerOk |-> r.invoked = 1, ranges |-> on]
     ELSE IF attempt >= max_retries \/ ~is_retryable_error(r.err)
       THEN [ok |-> FALSE, err |-> r.err, rows |-> r.rows, attempts |-> attempt,
             innerOk |-> FALSE, ranges |-> on]
     ELSE LET rest == with_retry(script, attempt + 1, r.rows, name, from, to,
                                 force)
          IN [rest EXCEPT !.ranges = @ \cup on]

\* behaviours of the inner processor over the attempts of one task
Scripts ==
  { <<"ok">>, <<E503, "ok">>, <<ETooLarge>>, <<EMalformed>>,
    [i \in 1..max_retries |-> E503], [i \in 1..max_retries |-> ETimeout] }

(***************************************************************************)
(* resilience.rs: with_retry with its RetryConfig and its sleeps, around   *)
(* an operation that returns script[i] on attempt i.                       *)
(***************************************************************************)
RetryConfigDefault ==
  [max_retries |-> max_retries, initial_delay_ms |-> initial_delay_ms,
   max_delay_ms |-> max_delay_ms, backoff_multiplier |-> backoff_multiplier]

\* faulty variant: the delay is not capped
next_delay_uncapped(delay, cfg) == delay * cfg.backoff_multiplier

\* delay = ((delay as f64) * backoff_multiplier) as u64; delay.min(max_delay_ms)
next_delay(delay, cfg) ==
  Min(delay * cfg.backoff_multiplier, cfg.max_delay_ms)

\* the loop of with_retry from attempt on, delay being the local of that name
\* and sleeps the sleeps made so far
RECURSIVE with_retry_loop(_, _, _, _, _)
with_retry_loop(cfg, script, attempt, delay, sleeps) ==
  IF script[attempt] = "ok"
    THEN [ok |-> TRUE, err |-> "", attempts |-> attempt, sleeps |-> sleeps]
  ELSE IF attempt >= cfg.max_retries \/ ~is_retryable_error(script[attempt])
    THEN [ok |-> FALSE, err |-> script[attempt], attempts |-> attempt,
          sleeps |-> sleeps]
  ELSE with_retry_loop(cfg, script, attempt + 1, next_delay(delay, cfg),
                       Append(sleeps, delay))

\* let mut delay = config.initial_delay_ms; let mut attempt = 0; loop { .. }
with_retry_cfg(cfg, script) ==
  with_retry_loop(cfg, script, 1, cfg.initial_delay_ms, <<>>)

(***************************************************************************)
(* State.                                                                  *)
(***************************************************************************)
VARIABLES
  conf,             \* the deployment: chunk_size, from_block per strategy
  \* api.rs: App / State_
  paused,           \* App.paused (AtomicBool)
  status,           \* State_.status
  last_block,       \* State_.last_block
  head,             \* State_.head
  index,            \* State_.index : Option<IndexState>
  pending_reindex,  \* State_.pending_reindex : Option<IndexState>
  api,              \* the API handler in flight, between its two steps
  \* indexer.rs: run_indexer_and_follow
  fpc,              \* position of the follower loop
  last,             \* local `last`
  req,              \* local `pending_reindex` / `reindex_req` (taken request)
  strats,           \* reindex: strategies still to run (`for mut strat in strats`)
  rbounds,          \* reindex: resolved <<from, to>>
  \* indexer.rs: run_indexer
  rpc,              \* position of the supervisor
  rfrom, rto,       \* arguments from, to
  rstrats,          \* argument strategies (names, in order)
  rforce,           \* the strategies were passed with force_reindex = true
  cur, end,         \* locals cur, end
  intr,             \* result of should_interrupt at the checkpoint
  tasks,            \* per strategy: state of the spawned task of this chunk
  ret,              \* value returned by run_indexer
  \* persistent and shared
  db,               \* table indexed_ranges
  cm,               \* config.chunk_manager
  \* harness of the decorator specification
  dec,
  \* harness of the supervisor specification: run_indexer calls made so far
  calls,
  \* history variables
  chunks,           \* chunks dispatched by the current run: <<cur, end, chunk_size>>
  disp,             \* intervals dispatched during the current work unit
  unitFailed,       \* strategies that failed on some chunk of the current work unit
  okRanges,         \* per strategy: intervals on which the inner processor succeeded
  runStats,         \* per strategy: runs involving it (n, min from, max to, flags)
  exit,             \* how the last run_indexer call returned
  track,            \* what happened since an interrupt was requested
  res               \* harness of the resilience specifications

appVars == <<paused, status, last_block, head, index, pending_reindex, api>>
folVars == <<fpc, last, req, strats, rbounds>>
runVars == <<rpc, rfrom, rto, rstrats, rforce, cur, end, intr, tasks, ret>>
histVars == <<chunks, disp, unitFailed, okRanges, runStats, exit>>
vars == <<conf, appVars, folVars, runVars, db, cm, dec, calls, histVars, track,
          res>>

\* strategies: Vec<StrategyConfig>, in vector order
StrategyNames == conf.names
Strategies == {StrategyNames[i] : i \in 1..Len(StrategyNames)}
\* StrategyConfig.from_block
from_block(s) == conf.from_block[s]

\* Option<IndexState>::None
NoIndex == [some |-> FALSE, from |-> 0, to |-> 0, current |-> 0,
            strategy |-> "", is_reindex |-> FALSE]
SomeIndex(f, t, c, s, r) == [some |-> TRUE, from |-> f, to |-> t, current |-> c,
                             strategy |-> s, is_reindex |-> r]

NoStats == [n |-> 0, lo |-> 0, hi |-> 0, clean |-> TRUE, led |-> TRUE]
\* a strategy that failed, or one of whose runs was interrupted
Unclean == [n |-> 0, lo |-> 0, hi |-> 0, clean |-> FALSE, led |-> TRUE]
DecOff == [phase |-> "off", name |-> "", from |-> 0, to |-> 0, force |-> FALSE,
           inner |-> "", before |-> {}, ok |-> FALSE, err |-> "", invoked |-> 0,
           on |-> <<0, 0>>, stats |-> ""]

\* faulty variant: the paused flag is not consulted
should_interrupt_reindex == pending_reindex.some

\* api.rs: App::should_interrupt
should_interrupt == paused \/ pending_reindex.some

\* let mut last = strategies.iter().map(|c| c.from_block).min().unwrap_or(0)
InitialLast(fb) == SetMin({fb[s] : s \in DOMAIN fb})

InitApp ==
  /\ paused = FALSE
  /\ status = "running"
  /\ last_block = 0
  /\ head = 0
  /\ index = NoIndex
  /\ pending_reindex = NoIndex
  /\ api = "idle"

InitRun ==
  /\ rpc = "idle"
  /\ rfrom = 0 /\ rto = 0
  /\ rstrats = <<>>
  /\ rforce = FALSE
  /\ cur = 0 /\ end = 0
  /\ intr = FALSE
  /\ tasks = [s \in Strategies |-> "none"]
  /\ ret = [ok |-> TRUE, val |-> 0]

NoTrack == [intrChunks |-> 0, awaitReindex |-> FALSE, lost |-> NoIndex]
ResOff == [phase |-> "off"]

InitHist ==
  /\ track = NoTrack
  /\ chunks = <<>>
  /\ disp = {}
  /\ unitFailed = {}
  /\ okRanges = [s \in Strategies |-> {}]
  /\ runStats = [s \in Strategies |-> NoStats]
  /\ exit = "none"

Init ==
  /\ conf = [names |-> FollowNames, from_block |-> FollowFrom,
             chunk_size |-> FollowChunk, heads |-> Heads,
             bodies |-> ReindexBodies, track |-> FALSE]
  /\ InitApp /\ InitRun /\ InitHist
  /\ fpc = "gate"
  /\ last = InitialLast(FollowFrom)
  /\ req = NoIndex
  /\ strats = <<>>
  /\ rbounds = <<0, 0>>
  /\ db = {}
  /\ cm = IndexerConfigNew(FollowChunk)
  /\ dec = DecOff
  /\ calls = 0
  /\ res = ResOff

(***************************************************************************)
(* indexer.rs: run_indexer.                                                *)
(***************************************************************************)
InSeq(x, sq) == \E i \in 1..Len(sq) : sq[i] = x

\* the call: ensure!(from <= to), let mut cur = from
run_indexer(from, to, ss, force) ==
  /\ rfrom' = from /\ rto' = to /\ rstrats' = ss /\ rforce' = force
  /\ cur' = from
  /\ chunks' = <<>>
  /\ exit' = "none"
  /\ IF from <= to
       THEN rpc' = "check" /\ ret' = ret
       ELSE rpc' = "ret" /\ ret' = [ok |-> FALSE, val |-> 0]
  /\ runStats' = [s \in Strategies |->
       IF conf.track /\ InSeq(s, ss) /\ from <= to /\ runStats[s].clean
         THEN [runStats[s] EXCEPT
                 !.n = 1,
                 !.lo = IF runStats[s].n = 0 THEN from ELSE Min(@, from),
                 !.hi = IF runStats[s].n = 0 THEN to ELSE Max(@, to)]
         ELSE runStats[s]]
  /\ UNCHANGED <<end, intr, tasks>>

\* while cur <= to { if a.should_interrupt().await ... }  /  Ok(to)
RunCheck ==
  /\ rpc = "check"
  /\ IF cur <= rto
       THEN /\ intr' = should_interrupt
            /\ rpc' = "record"
            /\ UNCHANGED <<ret, exit>>
       ELSE /\ ret' = [ok |-> TRUE, val |-> rto]
            /\ rpc' = "ret"
            /\ exit' = "done"
            /\ UNCHANGED intr
  /\ UNCHANGED <<conf, appVars, folVars, rfrom, rto, rstrats, rforce, cur, end, tasks,
                 db, cm, dec, calls, chunks, disp, unitFailed, okRanges, runStats>>

\* faulty variant of the chunk end: one block too far
ChunkEndOpen(c, size, to) == Min(c + size, to)

\* the chunk [cur, end] of this iteration: (cur + chunk_size - 1).min(to)
ChunkEnd(c, size, to) == Min(c + size - 1, to)

\* let mut s = a.state.write().await; idx.current = cur; then either
\* return Ok(cur) or compute the chunk and spawn one task per strategy
RunRecord ==
  /\ rpc = "record"
  /\ index' = IF index.some THEN [index EXCEPT !.current = cur] ELSE index
  /\ IF intr
       THEN /\ ret' = [ok |-> TRUE, val |-> cur]
            /\ rpc' = "ret"
            /\ exit' = "interrupt"
            /\ runStats' = [s \in Strategies |->
                 IF conf.track /\ InSeq(s, rstrats) THEN Unclean
                                      ELSE runStats[s]]
            /\ UNCHANGED <<end, tasks, chunks, disp>>
       ELSE /\ end' = ChunkEnd(cur, cm.current, rto)
            /\ tasks' = [s \in Strategies |->
                 IF InSeq(s, rstrats) THEN "todo" ELSE "none"]
            /\ rpc' = "join"
            /\ chunks' = Append(chunks, <<cur, end', cm.current>>)
            /\ disp' = AddIv(disp, cur, end')
            /\ UNCHANGED <<ret, exit, runStats>>
  /\ intr' = FALSE
  /\ UNCHANGED <<conf, paused, status, last_block, head, pending_reindex, api,
                 folVars, rfrom, rto, rstrats, rforce, cur, db, cm, dec, calls,
                 unitFailed, okRanges>>

\* c.force_reindex of the StrategyConfig handed to run_indexer
\* faulty variant: the force_reindex of the reindex run is not passed on
ForceConfigured(s) == force_reindex[s]

Force(s) == rforce \/ force_reindex[s]

\* faulty variant: a chunk that starts below from_block is skipped
TaskSkipsStraddling(s, c, e) == from_block(s) > c

\* if s.max(c.from_block) > e { return Ok(Stats::default()) }
TaskSkips(s, c, e) == Max(c, from_block(s)) > e

\* the spawned task of strategy s on the chunk [cur, end]
TaskRun(s) ==
  /\ rpc = "join"
  /\ tasks[s] = "todo"
  /\ tasks' = [tasks EXCEPT ![s] = "done"]
  /\ IF TaskSkips(s, cur, end)
       THEN /\ runStats' = [runStats EXCEPT
                 ![s].led = IF conf.track /\ @ /\ Len(chunks) = 1 /\ runStats[s].clean
                              THEN FALSE ELSE @]
            /\ UNCHANGED <<db, cm, unitFailed, okRanges>>
       ELSE \E script \in Scripts :
              LET r == with_retry(script, 1, db, s, cur, end, Force(s))
              IN /\ db' = r.rows
                 /\ cm' = IF r.ok THEN on_success(cm) ELSE on_rpc_error(cm, r.err)
                 /\ unitFailed' = IF r.ok THEN unitFailed ELSE unitFailed \cup {s}
                 /\ okRanges' = [okRanges EXCEPT
                      ![s] = IF conf.track /\ r.innerOk
                               THEN AddIv(@, cur, end) ELSE @]
                 /\ runStats' = [runStats EXCEPT
                      ![s] = IF conf.track /\ ~r.ok THEN Unclean ELSE @]
  /\ UNCHANGED <<conf, appVars, folVars, rpc, rfrom, rto, rstrats, rforce, cur, end,
                 intr, ret, dec, calls, chunks, disp, exit>>

\* the task aborts (JoinError): no result, no chunk manager callback
TaskPanic(s) ==
  /\ rpc = "join"
  /\ tasks[s] = "todo"
  /\ ~TaskSkips(s, cur, end)
  /\ tasks' = [tasks EXCEPT ![s] = "done"]
  /\ unitFailed' = unitFailed \cup {s}
  /\ runStats' = [runStats EXCEPT ![s] = IF conf.track THEN Unclean ELSE @]
  /\ UNCHANGED <<conf, appVars, folVars, rpc, rfrom, rto, rstrats, rforce, cur, end,
                 intr, ret, db, cm, dec, calls, chunks, disp, okRanges, exit>>

\* join_all(tasks).await ... cur = end + 1
RunJoin ==
  /\ rpc = "join"
  /\ \A s \in Strategies : tasks[s] # "todo"
  /\ cur' = end + 1
  /\ end' = 0
  /\ tasks' = [s \in Strategies |-> "none"]
  /\ rpc' = "check"
  /\ UNCHANGED <<conf, appVars, folVars, rfrom, rto, rstrats, rforce, intr, ret,
                 db, cm, dec, calls, histVars>>

Supervisor ==
  \/ RunCheck
  \/ RunRecord
  \/ \E s \in Strategies : TaskRun(s)
  \/ \E s \in Strategies : TaskPanic(s)
  \/ RunJoin

(***************************************************************************)
(* indexer.rs: run_indexer_and_follow (the follower loop).                 *)
(***************************************************************************)
NoRun == UNCHANGED <<runVars, chunks, exit, runStats>>

\* the caller has taken the result: the locals of run_indexer are gone
RunGone ==
  /\ rpc' = "idle"
  /\ rfrom' = 0 /\ rto' = 0 /\ rstrats' = <<>> /\ rforce' = FALSE
  /\ cur' = 0 /\ end' = 0 /\ intr' = FALSE
  /\ chunks' = <<>>
  /\ exit' = "none"
  /\ UNCHANGED <<tasks, runStats>>

\* faulty variant: the confirmations are not subtracted
SafeHead(h) == h

\* head.saturating_sub(confirmations)
Safe(h) == IF h >= Confirmations THEN h - Confirmations ELSE 0

\* faulty variant: the request is read and left in place
FGateTakeKeeps ==
  /\ fpc = "gate"
  /\ ~paused \/ pending_reindex.some
  /\ req' = pending_reindex
  /\ fpc' = IF pending_reindex.some THEN "install" ELSE "resume"
  /\ NoRun
  /\ UNCHANGED <<paused, status, last_block, head, index, api, last, strats,
                 rbounds, conf, db, cm, dec, calls, disp, unitFailed, okRanges,
                 pending_reindex>>

\* faulty variant: the follower clears the paused flag as it leaves the gate
FGateTakeUnpauses ==
  /\ fpc = "gate"
  /\ ~paused \/ pending_reindex.some
  /\ req' = pending_reindex
  /\ paused' = FALSE
  /\ pending_reindex' = NoIndex
  /\ fpc' = IF pending_reindex.some THEN "install" ELSE "resume"
  /\ NoRun
  /\ UNCHANGED <<status, last_block, head, index, api, last, strats,
                 rbounds, conf, db, cm, dec, calls, disp, unitFailed, okRanges>>

\* faulty variant: a pending request does not wake a paused follower
FGateTakeWhenResumed ==
  /\ fpc = "gate"
  /\ ~paused
  /\ req' = pending_reindex
  /\ pending_reindex' = NoIndex
  /\ fpc' = IF pending_reindex.some THEN "install" ELSE "resume"
  /\ NoRun
  /\ UNCHANGED <<paused, status, last_block, head, index, api, last, strats,
                 rbounds, conf, db, cm, dec, calls, disp, unitFailed, okRanges>>

\* while paused && pending_reindex.is_none() { sleep }; pending_reindex.take()
FGateTake ==
  /\ fpc = "gate"
  /\ ~paused \/ pending_reindex.some
  /\ req' = pending_reindex
  /\ pending_reindex' = NoIndex
  /\ fpc' = IF pending_reindex.some THEN "install" ELSE "resume"
  /\ NoRun
  /\ UNCHANGED <<paused, status, last_block, head, index, api, last, strats,
                 rbounds, conf, db, cm, dec, calls, disp, unitFailed, okRanges>>

\* s.index = Some(reindex_req.clone()); s.status = Status::Reindexing
FInstall ==
  /\ fpc = "install"
  /\ index' = req
  /\ status' = "reindexing"
  /\ fpc' = "unpause"
  /\ disp' = {}
  /\ unitFailed' = {}
  /\ NoRun
  /\ UNCHANGED <<paused, last_block, head, pending_reindex, api, last, req,
                 strats, rbounds, conf, db, cm, dec, calls, okRanges>>

\* faulty variant: the name filter is applied to a request without a name
ReindexStratsByName(r) ==
  SelectSeq(StrategyNames, LAMBDA s : s = r.strategy)

\* strategies.iter().filter(|s| s.name == n) / strategies.to_vec()
ReindexStrats(r) ==
  IF r.strategy = "" THEN StrategyNames
  ELSE SelectSeq(StrategyNames, LAMBDA s : s = r.strategy)

\* resolved bounds of a reindex request, given the observed head
ReindexFrom(r, ss) ==
  IF r.from > 0 THEN r.from
  ELSE SetMin({from_block(ss[i]) : i \in 1..Len(ss)})
\* faulty variant: the cursor is left out of the default upper bound
ReindexToSafe(r, h) == IF r.to > 0 THEN r.to ELSE Safe(h)

ReindexTo(r, h) == IF r.to > 0 THEN r.to ELSE Max(last, Safe(h))

\* app.set_paused(false); resolve strategies and bounds; write them to index;
\* start the run of the first strategy
FBeginReindex ==
  /\ fpc = "unpause"
  /\ paused' = FALSE
  /\ LET ss == ReindexStrats(req)
     IN IF ss = <<>>
          THEN /\ fpc' = "rdone"
               /\ NoRun
               /\ UNCHANGED <<index, strats, rbounds>>
          ELSE \E h \in conf.heads :
                 LET f == ReindexFrom(req, ss)
                     t == ReindexTo(req, h)
                 IN /\ index' = IF index.some
                                  THEN [index EXCEPT !.from = f, !.to = t, !.current = f]
                                  ELSE index
                    /\ rbounds' = IF f <= t THEN <<f, t>> ELSE <<0, 0>>
                    /\ IF f <= t
                         THEN /\ run_indexer(f, t, <<Head(ss)>>, TRUE)
                              /\ strats' = Tail(ss)
                              /\ fpc' = "rwait"
                         ELSE /\ NoRun
                              /\ strats' = strats
                              /\ fpc' = "rdone"
  /\ req' = NoIndex
  /\ UNCHANGED <<status, last_block, head, pending_reindex, api, last,
                 conf, db, cm, dec, calls, disp, unitFailed, okRanges>>

\* after run_indexer of one strategy: if app.should_interrupt() { break }
FRWait ==
  /\ fpc = "rwait"
  /\ rpc = "ret"
  /\ IF ~should_interrupt /\ strats # <<>>
       THEN /\ run_indexer(rbounds[1], rbounds[2], <<Head(strats)>>, TRUE)
            /\ strats' = Tail(strats)
            /\ fpc' = "rwait"
       ELSE /\ RunGone
            /\ ret' = [ok |-> TRUE, val |-> 0]
            /\ fpc' = "rdone"
            /\ strats' = <<>>
  /\ rbounds' = IF fpc' = "rwait" THEN rbounds ELSE <<0, 0>>
  /\ UNCHANGED <<appVars, last, req, conf, db, cm, dec, calls, disp, unitFailed,
                 okRanges>>

\* if !app.should_interrupt().await { ... }
FRDone ==
  /\ fpc = "rdone"
  /\ fpc' = IF should_interrupt THEN "gate" ELSE "rclear"
  /\ NoRun
  /\ UNCHANGED <<appVars, last, req, strats, rbounds, conf, db, cm, dec, calls, disp,
                 unitFailed, okRanges>>

\* s.index = None; s.status = Status::Running; continue
FRClear ==
  /\ fpc = "rclear"
  /\ index' = NoIndex
  /\ status' = "running"
  /\ fpc' = "gate"
  /\ NoRun
  /\ UNCHANGED <<paused, last_block, head, pending_reindex, api, last, req,
                 strats, rbounds, conf, db, cm, dec, calls, disp, unitFailed, okRanges>>

\* faulty variant: a unit interrupted at its last block is resumed too
ResumableUpTo(idx) ==
  idx.some /\ ~idx.is_reindex /\ idx.current > 0 /\ idx.current <= idx.to

\* faulty variant: a reindex unit left in index is resumed as a follow unit
ResumableReindex(idx) ==
  idx.some /\ idx.current > 0 /\ idx.current < idx.to

\* !idx.is_reindex && idx.current > 0 && idx.current < idx.to
Resumable(idx) ==
  idx.some /\ ~idx.is_reindex /\ idx.current > 0 /\ idx.current < idx.to

\* resume the work unit left in index
FResume ==
  /\ fpc = "resume"
  /\ Resumable(index)
  /\ run_indexer(index.current, index.to, StrategyNames, FALSE)
  /\ fpc' = "fwait"
  /\ UNCHANGED <<appVars, last, req, strats, rbounds, conf, db, cm, dec, calls, disp,
                 unitFailed, okRanges>>

\* follow the chain head: publish head and last_block, then either install
\* the work unit [last + 1, safe] and run it, or clear index and sleep
FFollow ==
  /\ fpc = "resume"
  /\ ~Resumable(index)
  /\ \E h \in conf.heads :
       /\ head' = h
       /\ last_block' = last
       /\ IF last < Safe(h)
            THEN /\ index' = SomeIndex(last + 1, Safe(h), last + 1, "", FALSE)
                 /\ run_indexer(last + 1, Safe(h), StrategyNames, FALSE)
                 /\ fpc' = "fwait"
                 /\ disp' = {}
                 /\ unitFailed' = {}
            ELSE /\ index' = NoIndex
                 /\ fpc' = "gate"
                 /\ NoRun
                 /\ UNCHANGED <<disp, unitFailed>>
  /\ UNCHANGED <<paused, status, pending_reindex, api, last, req, strats,
                 rbounds, conf, db, cm, dec, calls, okRanges>>

\* Ok(processed) => if !app.should_interrupt().await { ... }
FWait ==
  /\ fpc = "fwait"
  /\ rpc = "ret"
  /\ RunGone
  /\ fpc' = IF ret.ok /\ ~should_interrupt THEN "commit" ELSE "gate"
  /\ ret' = IF fpc' = "commit" THEN ret ELSE [ok |-> TRUE, val |-> 0]
  /\ UNCHANGED <<appVars, last, req, strats, rbounds, conf, db, cm, dec, calls, disp,
                 unitFailed, okRanges>>

\* last = processed; s.last_block = last; s.index = None
FCommit ==
  /\ fpc = "commit"
  /\ last' = ret.val
  /\ last_block' = ret.val
  /\ index' = NoIndex
  /\ fpc' = "gate"
  /\ ret' = [ok |-> TRUE, val |-> 0]
  /\ disp' = {}
  /\ unitFailed' = {}
  /\ UNCHANGED <<rpc, rfrom, rto, rstrats, rforce, cur, end, intr, tasks,
                 chunks, exit, runStats>>
  /\ UNCHANGED <<paused, status, head, pending_reindex, api, req, strats,
                 rbounds, conf, db, cm, dec, calls, okRanges>>

\* provider.get_block_number().await? fails: run_indexer_and_follow returns
\* the error and the process ends; only the table survives
FCrash ==
  /\ \/ fpc = "unpause" /\ ReindexStrats(req) # <<>>
     \/ fpc = "resume" /\ ~Resumable(index)
  /\ fpc' = "crashed"
  /\ paused' = FALSE /\ status' = "running" /\ last_block' = 0 /\ head' = 0
  /\ index' = NoIndex /\ pending_reindex' = NoIndex /\ api' = "idle"
  /\ rpc' = "idle" /\ rfrom' = 0 /\ rto' = 0 /\ rstrats' = <<>>
  /\ rforce' = FALSE /\ cur' = 0 /\ end' = 0 /\ intr' = FALSE
  /\ tasks' = [s \in Strategies |-> "none"]
  /\ ret' = [ok |-> TRUE, val |-> 0]
  /\ chunks' = <<>> /\ disp' = {} /\ unitFailed' = {}
  /\ okRanges' = [s \in Strategies |-> {}]
  /\ runStats' = [s \in Strategies |-> NoStats]
  /\ exit' = "none"
  /\ last' = 0
  /\ req' = NoIndex
  /\ strats' = <<>>
  /\ rbounds' = <<0, 0>>
  /\ cm' = IndexerConfigNew(conf.chunk_size)
  /\ UNCHANGED <<conf, db, dec, calls>>

Follower ==
  \/ FGateTake \/ FInstall \/ FBeginReindex \/ FRWait \/ FRDone \/ FRClear
  \/ FResume \/ FFollow \/ FWait \/ FCommit \/ FCrash

(***************************************************************************)
(* api.rs: the handlers.                                                   *)
(***************************************************************************)
Serving == fpc \notin {"crashed", "off"}
ApiFrame == UNCHANGED <<conf, folVars, runVars, db, cm, dec, calls, histVars>>
\* the response of the handler (its status code), kept with the histories
Respond(code) ==
  res' = IF conf.track THEN [phase |-> "http", code |-> code] ELSE res
\* the body of the request the reindex handler is serving
Received(b) ==
  res' = IF conf.track THEN [phase |-> "http", code |-> 0, body |-> b] ELSE res

\* pause: app.set_paused(true)
Pause1 ==
  /\ Serving /\ api = "idle"
  /\ paused' = TRUE
  /\ api' = "pause"
  /\ UNCHANGED <<status, last_block, head, index, pending_reindex>>
  /\ UNCHANGED res
  /\ ApiFrame

\* faulty variant: the status write of pause drops the work unit too
Pause2ClearsIndex ==
  /\ api = "pause"
  /\ status' = "paused"
  /\ index' = NoIndex
  /\ api' = "idle"
  /\ UNCHANGED <<paused, last_block, head, pending_reindex>>
  /\ Respond(200)
  /\ ApiFrame

\* pause: app.state.write().await.status = Status::Paused
Pause2 ==
  /\ api = "pause"
  /\ status' = "paused"
  /\ api' = "idle"
  /\ UNCHANGED <<paused, last_block, head, index, pending_reindex>>
  /\ Respond(200)
  /\ ApiFrame

\* resume: app.set_paused(false)
Resume1 ==
  /\ Serving /\ api = "idle"
  /\ paused' = FALSE
  /\ api' = "resume"
  /\ UNCHANGED <<status, last_block, head, index, pending_reindex>>
  /\ UNCHANGED res
  /\ ApiFrame

\* faulty variant: resume always reports Running
Resume2Running ==
  /\ api = "resume"
  /\ status' = "running"
  /\ api' = "idle"
  /\ UNCHANGED <<paused, last_block, head, index, pending_reindex>>
  /\ Respond(200)
  /\ ApiFrame

\* resume: s.status = if index is a reindex { Reindexing } else { Running }
Resume2 ==
  /\ api = "resume"
  /\ status' = IF index.some /\ index.is_reindex THEN "reindexing" ELSE "running"
  /\ api' = "idle"
  /\ UNCHANGED <<paused, last_block, head, index, pending_reindex>>
  /\ Respond(200)
  /\ ApiFrame

\* faulty variant: a request is dropped while another one is pending
Reindex1KeepsFirst(b) ==
  /\ Serving /\ api = "idle"
  /\ IF b.from > 0 /\ b.to > 0 /\ b.from > b.to
       THEN /\ Respond(400)
            /\ UNCHANGED <<pending_reindex, api>>
       ELSE /\ pending_reindex' =
                 IF pending_reindex.some THEN pending_reindex
                 ELSE SomeIndex(b.from, b.to, 0, b.strategy, TRUE)
            /\ api' = "reindex"
            /\ Received(b)
  /\ UNCHANGED <<paused, status, last_block, head, index>>
  /\ ApiFrame

\* faulty variant: the bounds of the body are not validated
Reindex1Unchecked(b) ==
  /\ Serving /\ api = "idle"
  /\ pending_reindex' = SomeIndex(b.from, b.to, 0, b.strategy, TRUE)
  /\ api' = "reindex"
  /\ Received(b)
  /\ UNCHANGED <<paused, status, last_block, head, index>>
  /\ ApiFrame

\* reindex: 400 if from > to, else s.pending_reindex = Some(..)
Reindex1(b) ==
  /\ Serving /\ api = "idle"
  /\ IF b.from > 0 /\ b.to > 0 /\ b.from > b.to
       THEN /\ Respond(400)
            /\ UNCHANGED <<pending_reindex, api>>
       ELSE /\ pending_reindex' = SomeIndex(b.from, b.to, 0, b.strategy, TRUE)
            /\ api' = "reindex"
            /\ Received(b)
  /\ UNCHANGED <<paused, status, last_block, head, index>>
  /\ ApiFrame

\* reindex: app.set_paused(false)
Reindex2 ==
  /\ api = "reindex"
  /\ paused' = FALSE
  /\ api' = "idle"
  /\ UNCHANGED <<status, last_block, head, index, pending_reindex>>
  /\ Respond(200)
  /\ ApiFrame

\* faulty variant: reset leaves the pending request in place
Reset1KeepsPending ==
  /\ Serving /\ api = "idle"
  /\ status' = "running"
  /\ index' = NoIndex
  /\ api' = "reset"
  /\ UNCHANGED <<paused, last_block, head, pending_reindex>>
  /\ UNCHANGED res
  /\ ApiFrame

\* reset: status = Running; index = None; pending_reindex = None
Reset1 ==
  /\ Serving /\ api = "idle"
  /\ status' = "running"
  /\ index' = NoIndex
  /\ pending_reindex' = NoIndex
  /\ api' = "reset"
  /\ UNCHANGED <<paused, last_block, head>>
  /\ UNCHANGED res
  /\ ApiFrame

\* reset: app.set_paused(false)
Reset2 ==
  /\ api = "reset"
  /\ paused' = FALSE
  /\ api' = "idle"
  /\ UNCHANGED <<status, last_block, head, index, pending_reindex>>
  /\ Respond(200)
  /\ ApiFrame

Api ==
  \/ Pause1 \/ Pause2 \/ Resume1 \/ Resume2
  \/ \E b \in conf.bodies : Reindex1(b)
  \/ Reindex2 \/ Reset1 \/ Reset2

\* History of the interrupts, kept beside every step:
\*  intrChunks: the chunks in flight when an interrupt was requested (paused
\*  set or a reindex request stored) plus those dispatched since, for as long
\*  as the request stands;
\*  awaitReindex: a reindex request was accepted while a follow or resume pass
\*  was running, and the follower has not begun the reindex yet;
\*  lost: the pending request that the last accepted request has replaced
\*  by a different one.
ChunkDispatched == rpc = "record" /\ rpc' = "join"
ReindexAccepted == api = "idle" /\ api' = "reindex"
Track ==
  track' =
    [intrChunks |->
       IF paused' \/ pending_reindex'.some
         THEN IF paused \/ pending_reindex.some
                THEN track.intrChunks + (IF ChunkDispatched THEN 1 ELSE 0)
                ELSE IF rpc' = "join" THEN 1 ELSE 0
         ELSE 0,
     awaitReindex |->
       IF ReindexAccepted /\ fpc = "fwait" THEN TRUE
       ELSE IF \/ fpc = "unpause" /\ fpc' # "unpause"
               \/ api' = "reset"
               \/ fpc' = "crashed"
         THEN FALSE
       ELSE track.awaitReindex,
     lost |->
       IF fpc' = "crashed" THEN NoIndex
       ELSE IF conf.track /\ ReindexAccepted
         THEN IF pending_reindex.some /\ pending_reindex' # pending_reindex
                THEN pending_reindex
                ELSE NoIndex
       ELSE track.lost]

Next ==
  /\ \/ (Supervisor \/ Follower) /\ UNCHANGED res
     \/ Api
  /\ Track

Spec == Init /\ [][Next]_vars

(***************************************************************************)
(* The follower of a deployment of two strategies that receives reindex    *)
(* requests, with the responses and the histories of the runs kept.        *)
(***************************************************************************)
InitReindexSpec ==
  /\ \E d \in ReindexDeployments :
       conf = [names |-> TwoNames, from_block |-> d.from_block,
               chunk_size |-> TwoChunk, heads |-> TwoHeads,
               bodies |-> d.bodies, track |-> TRUE]
  /\ InitApp /\ InitRun /\ InitHist
  /\ fpc = "gate"
  /\ last = InitialLast(conf.from_block)
  /\ req = NoIndex
  /\ strats = <<>>
  /\ rbounds = <<0, 0>>
  /\ db = {}
  /\ cm = IndexerConfigNew(TwoChunk)
  /\ dec = DecOff
  /\ calls = 0
  /\ res = ResOff

\* the requests are POST /api/reindex and POST /api/pause
NextReindex ==
  /\ \/ (Supervisor \/ Follower) /\ UNCHANGED res
     \/ \E b \in conf.bodies : Reindex1(b)
     \/ Reindex2
     \/ Pause1 \/ Pause2
  /\ Track

SpecReindex == InitReindexSpec /\ [][NextReindex]_vars

(***************************************************************************)
(* The supervisor on its own: run_indexer called with arbitrary arguments  *)
(* by a caller that installs the work unit in index, while the paused flag *)
(* is set and cleared.                                                     *)
(***************************************************************************)
InitRunSpec ==
  /\ conf = [names |-> RunNames, from_block |-> RunFromBlock,
             chunk_size |-> RunChunk, heads |-> {}, bodies |-> {},
             track |-> TRUE]
  /\ InitApp /\ InitRun /\ InitHist
  /\ fpc = "off"
  /\ last = 0
  /\ req = NoIndex
  /\ strats = <<>>
  /\ rbounds = <<0, 0>>
  /\ db = {}
  /\ cm = IndexerConfigNew(RunChunk)
  /\ dec = DecOff
  /\ calls = 0
  /\ res = ResOff

RunStrategyLists == {RunNames} \cup {<<RunNames[i]>> : i \in 1..Len(RunNames)}

\* a caller installs index and calls run_indexer(from, to, strategies)
Call(from, to, ss, force) ==
  /\ fpc = "off"
  /\ rpc = "idle"
  /\ calls < MaxCalls
  /\ calls' = calls + 1
  /\ index' = SomeIndex(from, to, from, "", force)
  /\ run_indexer(from, to, ss, force)
  /\ disp' = {}
  /\ unitFailed' = {}
  /\ UNCHANGED <<conf, paused, status, last_block, head, pending_reindex, api,
                 folVars, db, cm, dec, okRanges>>

\* the caller takes the result and drops the work unit
Return ==
  /\ fpc = "off"
  /\ rpc = "ret"
  /\ RunGone
  /\ ret' = [ok |-> TRUE, val |-> 0]
  /\ index' = NoIndex
  /\ disp' = {}
  /\ unitFailed' = {}
  /\ UNCHANGED <<conf, paused, status, last_block, head, pending_reindex, api,
                 folVars, db, cm, dec, calls, okRanges>>

\* App::set_paused(v)
SetPaused(v) ==
  /\ fpc = "off"
  /\ paused # v
  /\ paused' = v
  /\ UNCHANGED <<conf, status, last_block, head, index, pending_reindex, api,
                 folVars, runVars, db, cm, dec, calls, histVars>>

NextRun ==
  /\ \/ Supervisor
     \/ \E ft \in RunRanges, ss \in RunStrategyLists, force \in BOOLEAN :
          Call(ft[1], ft[2], ss, force)
     \/ Return
     \/ \E v \in BOOLEAN : SetPaused(v)
  /\ Track
  /\ UNCHANGED res

SpecRun == InitRunSpec /\ [][NextRun]_vars

\* the runtime keeps polling the supervisor and the tasks it spawned, and every
\* attempt of a task ends (the retry executor gives up after max_retries)
SpecRunFair ==
  /\ InitRunSpec
  /\ [][NextRun /\ calls' <= FairCalls]_vars
  /\ WF_vars(Supervisor /\ Track /\ UNCHANGED res)

(***************************************************************************)
(* The decorator on its own: IndexedRangeDecorator::process applied to     *)
(* drawn tables, ranges, force flags and inner results.                    *)
(***************************************************************************)
DecInputs ==
  { [phase |-> "in", name |-> n, from |-> f, to |-> t, force |-> fo,
     inner |-> i, before |-> {}, ok |-> FALSE, err |-> "", invoked |-> 0,
     on |-> <<0, 0>>, stats |-> ""] :
      n \in {"s1"}, f \in DecPoints, t \in DecPoints, fo \in BOOLEAN,
      i \in {"ok", E503, EMalformed} }

InitDecSpec ==
  /\ conf = [names |-> RunNames, from_block |-> RunFromBlock,
             chunk_size |-> RunChunk, heads |-> {}, bodies |-> {},
             track |-> FALSE]
  /\ InitApp /\ InitRun /\ InitHist
  /\ fpc = "off"
  /\ last = 0
  /\ req = NoIndex
  /\ strats = <<>>
  /\ rbounds = <<0, 0>>
  /\ db \in DecTables
  /\ cm = IndexerConfigNew(RunChunk)
  /\ dec \in {d \in DecInputs : d.from <= d.to}
  /\ calls = 0
  /\ res = ResOff

\* one call of IndexedRangeDecorator::process
DecCall ==
  /\ dec.phase = "in"
  /\ LET r == process(db, dec.name, dec.from, dec.to, dec.force, dec.inner)
     IN /\ db' = r.rows
        /\ dec' = [dec EXCEPT !.phase = "out", !.before = db, !.ok = r.ok,
                              !.err = r.err, !.invoked = r.invoked,
                              !.on = r.on, !.stats = r.stats]
  /\ UNCHANGED <<conf, appVars, folVars, runVars, cm, calls, histVars>>

\* the next call, on the table the previous one left
DecAgain ==
  /\ dec.phase = "out"
  /\ dec' \in {d \in DecInputs : d.from <= d.to}
  /\ UNCHANGED <<conf, appVars, folVars, runVars, db, cm, calls, histVars>>

NextDec == (DecCall \/ DecAgain) /\ Track /\ UNCHANGED res

SpecDec == InitDecSpec /\ [][NextDec]_vars

(***************************************************************************)
(* resilience.rs on its own: with_retry applied to every RetryConfig and   *)
(* every behaviour of the operation, and an AdaptiveChunkManager driven by *)
(* sequential on_success / on_rpc_error calls.                             *)
(***************************************************************************)
\* nothing else runs
InitIdle ==
  /\ conf = [names |-> RunNames, from_block |-> RunFromBlock,
             chunk_size |-> RunChunk, heads |-> {}, bodies |-> {},
             track |-> FALSE]
  /\ InitApp /\ InitRun /\ InitHist
  /\ fpc = "off"
  /\ last = 0
  /\ req = NoIndex
  /\ strats = <<>>
  /\ rbounds = <<0, 0>>
  /\ db = {}
  /\ dec = DecOff
  /\ calls = 0

RetryConfigs ==
  [max_retries : 1..max_retries, initial_delay_ms : RetryInitialDelays,
   max_delay_ms : RetryMaxDelays, backoff_multiplier : RetryMultipliers]

InitRetrySpec ==
  /\ InitIdle
  /\ cm = IndexerConfigNew(RunChunk)
  /\ \E c \in RetryConfigs, sc \in [1..max_retries -> RetryOutcomes] :
       res = [phase |-> "call", cfg |-> c, script |-> sc,
              out |-> [ok |-> FALSE, err |-> "", attempts |-> 0, sleeps |-> <<>>]]

\* with_retry(&config, op_name, op).await
RetryCall ==
  /\ res.phase = "call"
  /\ res' = [res EXCEPT !.phase = "done",
                         !.out = with_retry_cfg(res.cfg, res.script)]
  /\ UNCHANGED <<conf, appVars, folVars, runVars, db, cm, dec, calls, histVars,
                 track>>

NextRetry == RetryCall

SpecRetry == InitRetrySpec /\ [][NextRetry]_vars

InitChunkSpec ==
  /\ InitIdle
  /\ \E i \in ChunkInitials : cm = IndexerConfigNew(i)
  /\ res = [phase |-> "cm", op |-> "new", arg |-> "", before |-> cm]

\* chunk_manager.on_success(), while the counter is below the merged values
CmSuccess ==
  /\ res.phase = "cm"
  /\ cm.succ < SuccCap
  /\ cm' = on_success(cm)
  /\ res' = [res EXCEPT !.op = "on_success", !.arg = "", !.before = cm]
  /\ UNCHANGED <<conf, appVars, folVars, runVars, db, dec, calls, histVars,
                 track>>

\* chunk_manager.on_rpc_error(&e.to_string())
CmError(e) ==
  /\ res.phase = "cm"
  /\ cm' = on_rpc_error(cm, e)
  /\ res' = [res EXCEPT !.op = "on_rpc_error", !.arg = e, !.before = cm]
  /\ UNCHANGED <<conf, appVars, folVars, runVars, db, dec, calls, histVars,
                 track>>

NextChunk ==
  \/ CmSuccess
  \/ \E e \in Errors \cup {EResponseSize} : CmError(e)

SpecChunk == InitChunkSpec /\ [][NextChunk]_vars

(***************************************************************************)
(* resilience.rs: one AdaptiveChunkManager shared by the tasks of a chunk. *)
(* The methods are not atomic: each load, fetch_add and store of the two   *)
(* atomics is a step, and the steps of the tasks interleave.               *)
(* res.th[t] holds the position of task t inside a method and its locals.  *)
(***************************************************************************)
Tasks == {"s1", "s2"}
NoCall == [pc |-> "idle", new |-> 0]

InitSharedSpec ==
  /\ InitIdle
  /\ \E i \in SharedInitials : cm = IndexerConfigNew(i)
  /\ res = [phase |-> "shared", th |-> [t \in Tasks |-> NoCall]]

SharedFrame ==
  UNCHANGED <<conf, appVars, folVars, runVars, db, dec, calls, histVars, track>>

\* on_success: let s = self.consecutive_successes.fetch_add(1) + 1
SuccessFetchAdd(t) ==
  /\ res.phase = "shared" /\ res.th[t].pc = "idle"
  /\ cm.succ < SuccCap
  /\ cm' = [cm EXCEPT !.succ = @ + 1]
  /\ res' = [res EXCEPT !.th[t].pc =
                IF cm.succ + 1 >= growth_threshold THEN "grow" ELSE "idle"]
  /\ SharedFrame

\* on_success: old = current.load(); new = ...; if new > old { .. }
SuccessLoad(t) ==
  /\ res.phase = "shared" /\ res.th[t].pc = "grow"
  /\ LET new == grown_size(cm.current, cm.max)
     IN res' = [res EXCEPT !.th[t] =
                  IF new > cm.current THEN [pc |-> "store", new |-> new]
                  ELSE NoCall]
  /\ cm' = cm
  /\ SharedFrame

\* on_rpc_error: if is_chunk_size_error(error) { old = current.load(); .. }
ErrorLoad(t, e) ==
  /\ res.phase = "shared" /\ res.th[t].pc = "idle"
  /\ is_chunk_size_error(e)
  /\ LET new == halved_size(cm.current, cm.min)
     IN /\ new < cm.current
        /\ res' = [res EXCEPT !.th[t] = [pc |-> "store", new |-> new]]
  /\ cm' = cm
  /\ SharedFrame

\* self.current.store(new) of on_success and of on_rpc_error
StoreCurrent(t) ==
  /\ res.phase = "shared" /\ res.th[t].pc = "store"
  /\ cm' = [cm EXCEPT !.current = res.th[t].new]
  /\ res' = [res EXCEPT !.th[t] = [pc |-> "zero", new |-> 0]]
  /\ SharedFrame

\* reset: self.current.store(self.initial)
ResetCurrent(t) ==
  /\ res.phase = "shared" /\ res.th[t].pc = "idle"
  /\ cm' = [cm EXCEPT !.current = cm.initial]
  /\ res' = [res EXCEPT !.th[t] = [pc |-> "zero", new |-> 0]]
  /\ SharedFrame

\* self.consecutive_successes.store(0) of the three methods
StoreZero(t) ==
  /\ res.phase = "shared" /\ res.th[t].pc = "zero"
  /\ cm' = [cm EXCEPT !.succ = 0]
  /\ res' = [res EXCEPT !.th[t] = NoCall]
  /\ SharedFrame

NextShared ==
  \E t \in Tasks :
    \/ SuccessFetchAdd(t)
    \/ SuccessLoad(t)
    \/ \E e \in {ETooLarge, EResponseSize} : ErrorLoad(t, e)
    \/ StoreCurrent(t)
    \/ ResetCurrent(t)
    \/ StoreZero(t)

SpecShared == InitSharedSpec /\ [][NextShared]_vars

(***************************************************************************)
(* Properties.                                                             *)
(***************************************************************************)
\* the follower commits the result of a pass: last = processed; s.last_block = last
CommitStep == fpc = "commit" /\ fpc' = "gate"

\* C1: whenever the follower advances last_block from L to L', every block of
\* (L, L'] was in a chunk dispatched to the strategies during that work unit.
C1_NoBlockSkipped ==
  [][CommitStep => CoversIv(disp, last_block + 1, last_block')]_vars

\* a commit that leaves a block of the work unit undispatched
C1_Skipped ==
  /\ fpc = "commit"
  /\ ret.val > last_block
  /\ ~CoversIv(disp, last_block + 1, ret.val)

\* C2: whenever the follower sets last_block to L after a pass that dispatched
\* every block up to L, no strategy failed on a chunk of the pass and every
\* strategy with from_block <= L has a row with to_block >= L.
C2_CoverageGuaranteed ==
  [][(CommitStep /\ CoversIv(disp, last_block + 1, last_block'))
       => /\ unitFailed = {}
          /\ \A s \in Strategies :
               from_block(s) <= last_block'
                 => \E r \in RowsOf(db, s) : r.to_block >= last_block']_vars

\* a commit of a fully dispatched work unit on which a strategy failed
C2_CommitAfterFailure ==
  /\ fpc = "commit"
  /\ CoversIv(disp, last_block + 1, ret.val)
  /\ unitFailed # {}

\* C3: every block inside the persisted interval of a strategy belongs to a
\* range on which its inner processor was invoked and succeeded.
C3_RowOnlySucceeded ==
  \A s \in Strategies : \A r \in RowsOf(db, s) :
    CoversIv(okRanges[s], r.from_block, r.to_block)

\* a row that spans a block of a chunk the strategy failed on
C3_RowSpansFailure ==
  \E s \in unitFailed : \E r \in RowsOf(db, s) :
    /\ calls = 1
    /\ ~CoversIv(okRanges[s], r.from_block, r.to_block)

\* C4: with force_reindex = false, a request contained in the row of the
\* strategy invokes the inner processor zero times, returns Stats::default()
\* and leaves the table unchanged; a request not contained in it (or without
\* a row) invokes the inner processor exactly once, on the whole [from, to].
C4_SkipOrOnce ==
  (dec.phase = "out" /\ ~dec.force) =>
    IF \E r \in dec.before :
         r.name = dec.name /\ dec.from >= r.from_block /\ dec.to <= r.to_block
      THEN dec.invoked = 0 /\ dec.ok /\ dec.stats = "default" /\ db = dec.before
      ELSE dec.invoked = 1 /\ dec.on = <<dec.from, dec.to>>

\* row [10, 100], request [20, 80]: skipped
C4_Skipped ==
  /\ dec.phase = "out" /\ ~dec.force
  /\ [name |-> "s1", from_block |-> 10, to_block |-> 100] \in dec.before
  /\ dec.from = 20 /\ dec.to = 80
  /\ dec.invoked = 0

\* C5: if the inner processor returns an error, process returns that error
\* and the table is unchanged, whatever the row and the force flag.
C5_ErrorKeepsRow ==
  (dec.phase = "out" /\ dec.invoked = 1 /\ dec.inner # "ok") =>
    /\ ~dec.ok
    /\ dec.err = dec.inner
    /\ db = dec.before

\* the inner processor fails on [200, 300] beside an existing row, with force
C5_FailedBesideRow ==
  /\ dec.phase = "out" /\ dec.force
  /\ dec.from = 200 /\ dec.to = 300
  /\ dec.invoked = 1 /\ dec.inner = EMalformed
  /\ RowsOf(dec.before, "s1") # {}

\* C6: the row of a strategy is the union of the ranges on which its inner
\* processor succeeded: [min of their starts, max of their ends]; so there is
\* at most one row per name, from_block <= to_block, and a row exists only
\* once the inner processor has succeeded.
C6_RowIsUnion ==
  \A s \in Strategies :
    IF okRanges[s] = {}
      THEN RowsOf(db, s) = {}
      ELSE /\ RowsOf(db, s) =
                {[name |-> s,
                  from_block |-> SetMin({iv[1] : iv \in okRanges[s]}),
                  to_block |-> SetMax({iv[2] : iv \in okRanges[s]})]}
           /\ \A r \in RowsOf(db, s) : r.from_block <= r.to_block

\* the row of s1 after a success on [136, ..] that follows one on [11, 110]
C6_RowExtended ==
  /\ calls = 2
  /\ <<11, 110>> \in okRanges["s1"]
  /\ \E iv \in okRanges["s1"] : iv[1] = 136
  /\ \E r \in RowsOf(db, "s1") : r.from_block = 11 /\ r.to_block >= 235
  /\ RowsOf(db, "s2") = {}

\* C7 as stated: after runs involving s in which every invocation succeeded
\* and none was interrupted, the row of s is [min from_i, max to_i], for every
\* from_block of s.
C7_RowIsHullOfRuns ==
  \A s \in Strategies :
    (rpc = "idle" /\ runStats[s].n = 1 /\ runStats[s].clean)
      => RowsOf(db, s) = {[name |-> s, from_block |-> runStats[s].lo,
                           to_block |-> runStats[s].hi]}

\* C7 amended: the same when s takes part in the first chunk of every run
\* (its from_block is not beyond the end of that chunk).
C7_RowIsHullOfLedRuns ==
  \A s \in Strategies :
    (rpc = "idle" /\ runStats[s].n = 1 /\ runStats[s].clean /\ runStats[s].led)
      => RowsOf(db, s) = {[name |-> s, from_block |-> runStats[s].lo,
                           to_block |-> runStats[s].hi]}

\* two successful runs of s1, the second with a grown chunk size
C7_TwoRuns ==
  /\ rpc = "idle" /\ calls = 2
  /\ runStats["s1"].clean /\ runStats["s1"].led
  /\ runStats["s1"].lo = 11 /\ runStats["s1"].hi = 261
  /\ cm.current > RunChunk
  /\ RowsOf(db, "s1") = {[name |-> "s1", from_block |-> 11, to_block |-> 261]}

\* C8: the chunks of a run partition [from, to]: the first starts at from,
\* each ends at min(start + chunk size - 1, to), each next one starts one
\* block after, and a run that was not interrupted ends its last chunk at to
\* and returns to.
C8_ChunksPartition ==
  (rpc # "idle" /\ rfrom <= rto) =>
    LET n == Len(chunks)
    IN /\ \A k \in 1..n :
            /\ chunks[k][1] <= chunks[k][2]
            /\ chunks[k][2] = Min(chunks[k][1] + chunks[k][3] - 1, rto)
       /\ n > 0 => chunks[1][1] = rfrom
       /\ \A k \in 1..(n - 1) : chunks[k + 1][1] = chunks[k][2] + 1
       /\ exit = "done" =>
            /\ n > 0
            /\ chunks[n][2] = rto
            /\ ret = [ok |-> TRUE, val |-> rto]

\* a completed run of three chunks whose size was halved after a failure
C8_SizeChanged ==
  /\ rpc = "ret" /\ exit = "done"
  /\ Len(chunks) = 3
  /\ chunks[2][3] < chunks[1][3]
  /\ unitFailed # {}

\* C9: the value returned by run_indexer is at most to, and every block of
\* [from, returned value] was dispatched before the return.
C9_ReturnIsLastProcessed ==
  (rpc = "ret" /\ ret.ok) =>
    /\ ret.val <= rto
    /\ \A b \in rfrom..ret.val :
         \E k \in 1..Len(chunks) : chunks[k][1] <= b /\ b <= chunks[k][2]

\* an interrupted run returns a block it did not dispatch
C9_ReturnsUndispatched ==
  /\ rpc = "ret" /\ exit = "interrupt"
  /\ Len(chunks) > 0
  /\ ret.val = chunks[Len(chunks)][2] + 1

\* C10: once pause has taken effect and the supervisor has stopped, the status
\* is paused and index.current is the block the supervisor was about to
\* process next: the first block of the work unit not yet dispatched.
C10_CurrentIsNextBlock ==
  (/\ paused /\ api = "idle" /\ status = "paused"
   /\ fpc = "gate" /\ rpc = "idle"
   /\ index.some /\ ~index.is_reindex)
    => /\ ~InIv(disp, index.current)
       /\ CoversIv(disp, index.from, index.current - 1)

\* paused after the last chunk of the work unit: index.current is a block
\* that was dispatched already
C10_PausedInLastChunk ==
  /\ paused /\ api = "idle" /\ status = "paused"
  /\ fpc = "gate" /\ rpc = "idle"
  /\ index.some /\ ~index.is_reindex
  /\ CoversIv(disp, index.from, index.to)
  /\ index.current = index.to

\* C11: while paused stays set with no pending reindex, at most one chunk
\* runs after the pause (the one in flight or the one whose checkpoint was
\* already passed); its tasks can always proceed to the join; once it is
\* joined no task runs, no run is started, and the follower does not leave
\* its gate.
C11_PauseBounded ==
  /\ [](paused /\ ~pending_reindex.some =>
          /\ track.intrChunks <= 1
          /\ rpc = "join" => ENABLED Supervisor)
  /\ [][(paused /\ ~pending_reindex.some /\ paused' /\ ~pending_reindex'.some) =>
          /\ fpc = "gate" => fpc' = "gate"
          /\ (track.intrChunks = 1 /\ rpc # "join") =>
                (rpc' # "join" /\ db' = db)
          /\ (track.intrChunks = 1 /\ rpc \in {"idle", "ret"}) =>
                rpc' \in {"idle", "ret"}]_vars

\* the follower waits at its gate after the one chunk that ran under the pause
C11_PausedAfterChunk ==
  /\ paused /\ ~pending_reindex.some
  /\ track.intrChunks = 1
  /\ fpc = "gate" /\ rpc = "idle"
  /\ index.some /\ index.current <= index.to

\* C12 (as stated): whatever work unit an interrupt left in index, at any
\* current in [from, to], the follower's next run is [current, to].
C12_ResumeAnywhere ==
  [][(/\ fpc = "resume" /\ fpc' = "fwait"
      /\ index.some /\ index.current \in index.from..index.to) =>
       (rfrom' = index.current /\ rto' = index.to)]_vars

\* C12 (amended): an interrupted run leaves index in place with current = cur;
\* the follower's next run is [current, to] if index holds a unit that is not
\* a reindex and 0 < current < to, and a fresh unit from last + 1 otherwise.
C12_ResumeReenters ==
  [][/\ (rpc = "record" /\ rpc' = "ret" /\ index.some) =>
          index' = [index EXCEPT !.current = cur]
     /\ (\/ fpc = "fwait" /\ fpc' = "gate"
         \/ fpc = "gate" /\ fpc' = "resume") => index' = index
     /\ (fpc = "resume" /\ fpc' = "fwait") =>
          IF /\ index.some /\ ~index.is_reindex
             /\ index.current > 0 /\ index.current < index.to
            THEN /\ rfrom' = index.current /\ rto' = index.to
                 /\ rstrats' = StrategyNames /\ ~rforce'
                 /\ index' = index
            ELSE rfrom' = last + 1]_vars

\* a run re-entered inside its work unit, at the block of the interrupt
C12_Resumed ==
  /\ fpc = "fwait" /\ rpc = "check" /\ chunks = <<>>
  /\ index.some /\ ~index.is_reindex
  /\ rfrom = index.current /\ rfrom > index.from /\ rto = index.to

\* C13 (as stated): after a reindex request was accepted during a follow
\* pass, the next run the follower starts is the reindex run.
C13_ReindexNext ==
  [][(track.awaitReindex /\ fpc = "unpause" /\ fpc' \notin {"unpause", "crashed"}) =>
       (fpc' = "rwait" /\ rforce')]_vars

\* C13 (amended): after a reindex request was accepted during a follow pass
\* and until the follower begins it, at most one more chunk runs, the pass is
\* not committed, no other run starts, and - if the request names no strategy
\* or a configured one and its range is not empty - the follower's next run
\* is the forced run on the requested range.
C13_ReindexNextIfSelected ==
  /\ [](track.awaitReindex =>
          /\ track.intrChunks <= 1
          /\ fpc \in {"fwait", "gate", "install", "unpause"}
          /\ fpc # "fwait" => rpc = "idle"
          /\ pending_reindex.some \/ req.some)
  /\ [][(/\ track.awaitReindex /\ fpc = "unpause"
         /\ fpc' \notin {"unpause", "crashed"}
         /\ req.strategy = "" \/ req.strategy \in Strategies) =>
          LET sel == IF req.strategy = "" THEN Strategies ELSE {req.strategy}
              f == IF req.from > 0 THEN req.from
                   ELSE SetMin({from_block(s) : s \in sel})
          IN (req.to > 0 /\ f <= req.to) =>
               /\ fpc' = "rwait" /\ rforce'
               /\ rfrom' = f /\ rto' = req.to
               /\ \E s \in sel : rstrats' = <<s>>]_vars

\* the follower is about to begin a reindex accepted during a follow pass
\* of which one chunk was still dispatched
C13_Awaited ==
  /\ track.awaitReindex /\ fpc = "unpause"
  /\ req.some /\ req.strategy = ""
  /\ track.intrChunks = 1

\* C14: neither the follower's cursor nor the published last_block ever
\* decreases while the follower runs.
C14_CursorMonotone ==
  [][fpc' # "crashed" => (last' >= last /\ last_block' >= last_block)]_vars

\* the cursor kept its value when a head lower than the previous one was seen
C14_LowerHeadSeen ==
  /\ last = 4 /\ last_block = 4 /\ head = 7
  /\ fpc = "gate" /\ index = NoIndex

\* C16: run_indexer_and_follow never returns.
C16_NeverReturns == fpc # "crashed"

\* the follower returned the error of a head query after it had indexed
C16_Returned == fpc = "crashed" /\ db # {}

\* C15: a strategy that fails on a chunk (final error of the retry executor,
\* or its task aborts) changes no row, neither its own nor another
\* strategy's; rows change only by the task of their own strategy; the join
\* is followed by cur = end + 1; a run on from <= to returns Ok, and after a
\* failure the run does return.
C15_FailureDoesNotAbort ==
  /\ [](rpc = "join" =>
          \A s \in Strategies :
            (tasks[s] = "todo" /\ ~TaskSkips(s, cur, end)) =>
              \A script \in Scripts :
                LET r == with_retry(script, 1, db, s, cur, end, Force(s))
                IN ~r.ok => r.rows = db)
  /\ [][/\ \A s \in Strategies :
            RowsOf(db', s) # RowsOf(db, s) =>
              (rpc = "join" /\ tasks[s] = "todo" /\ tasks'[s] = "done")
        /\ (\E s \in Strategies :
              /\ tasks[s] = "todo" /\ tasks'[s] = "done"
              /\ s \in unitFailed' /\ s \notin unitFailed) =>
             (db' = db /\ rpc' = "join" /\ cur' = cur /\ end' = end)
        /\ (rpc = "join" /\ rpc' # "join") =>
             (rpc' = "check" /\ cur' = end + 1)]_vars
  /\ [](rpc = "ret" /\ rfrom <= rto => ret.ok)
  /\ (rpc = "join" /\ unitFailed # {}) ~> (rpc = "ret" /\ ret.ok)

\* a run of two chunks returned Ok(to) although s1 failed: s1 has no row, s2 has
C15_FailedYetDone ==
  /\ rpc = "ret" /\ exit = "done" /\ ret = [ok |-> TRUE, val |-> rto]
  /\ Len(chunks) >= 2
  /\ "s1" \in unitFailed /\ "s2" \notin unitFailed
  /\ RowsOf(db, "s1") = {} /\ RowsOf(db, "s2") # {}

\* C17: with_retry stops at the first attempt that succeeds, fails with an
\* error that is not retryable, or is attempt number max_retries; it returns
\* that attempt's result.  So: a first success is returned at once, a fatal
\* error is surfaced without further attempts ("bad request: malformed" on
\* the first attempt: one invocation), and when every attempt fails with a
\* retryable error there are exactly max_retries invocations and the last
\* error is surfaced.
C17_RetryUntilDecided ==
  res.phase = "done" =>
    LET sc == res.script
        n == res.cfg.max_retries
        Decides(k) == sc[k] \notin {"503 service unavailable"} \/ k >= n
        stop == CHOOSE k \in 1..Len(sc) :
                  Decides(k) /\ \A j \in 1..(k - 1) : ~Decides(j)
    IN /\ res.out.attempts = stop
       /\ res.out.ok = (sc[stop] = "ok")
       /\ ~res.out.ok => res.out.err = sc[stop]
       /\ (\A k \in 1..Len(sc) : sc[k] = "503 service unavailable") =>
            (res.out.attempts = n /\ ~res.out.ok)
       /\ sc[1] = "bad request: malformed" => res.out.attempts = 1

\* five attempts all failed with a 503 under the default configuration
C17_Exhausted ==
  /\ res.phase = "done" /\ res.cfg = RetryConfigDefault
  /\ \A k \in 1..max_retries : res.script[k] = E503
  /\ res.out = [ok |-> FALSE, err |-> E503, attempts |-> max_retries,
                sleeps |-> <<500, 1000, 2000, 4000>>]

\* C18 (as stated): for every RetryConfig the sleep before the k-th retry is
\* min(max_delay_ms, initial_delay_ms * backoff_multiplier^(k-1)).
C18_SleepFormula ==
  res.phase = "done" =>
    LET Pow[k \in 0..max_retries] ==
          IF k = 0 THEN 1 ELSE res.cfg.backoff_multiplier * Pow[k - 1]
    IN \A k \in 1..Len(res.out.sleeps) :
         res.out.sleeps[k] =
           Min(res.cfg.max_delay_ms, res.cfg.initial_delay_ms * Pow[k - 1])

\* C18 (amended): there is one sleep per retry; the first is initial_delay_ms
\* as configured and each later one is min(max_delay_ms, previous *
\* backoff_multiplier).  When initial_delay_ms <= max_delay_ms the sleep
\* before the k-th retry is min(max_delay_ms, initial_delay_ms *
\* backoff_multiplier^(k-1)), no sleep exceeds max_delay_ms and their sum is at
\* most max_retries * max_delay_ms; with the defaults they are 500, 1000,
\* 2000, 4000.
C18_SleepsCappedAfterFirst ==
  res.phase = "done" =>
    LET sl == res.out.sleeps
        c == res.cfg
        Sum[k \in 0..Len(sl)] == IF k = 0 THEN 0 ELSE Sum[k - 1] + sl[k]
        Pow[k \in 0..max_retries] ==
          IF k = 0 THEN 1 ELSE c.backoff_multiplier * Pow[k - 1]
    IN /\ Len(sl) = res.out.attempts - 1
       /\ Len(sl) > 0 => sl[1] = c.initial_delay_ms
       /\ \A k \in 2..Len(sl) :
            sl[k] = Min(c.max_delay_ms, sl[k - 1] * c.backoff_multiplier)
       /\ c.initial_delay_ms <= c.max_delay_ms =>
            /\ \A k \in 1..Len(sl) :
                 /\ sl[k] = Min(c.max_delay_ms, c.initial_delay_ms * Pow[k - 1])
                 /\ sl[k] <= c.max_delay_ms
            /\ Sum[Len(sl)] <= c.max_retries * c.max_delay_ms
       /\ (c = RetryConfigDefault /\ res.out.attempts = 5) =>
            sl = <<500, 1000, 2000, 4000>>

\* the cap was reached: 500 ms tripled four times under a cap of 1000 ms
C18_Capped ==
  /\ res.phase = "done"
  /\ res.cfg.initial_delay_ms = 500 /\ res.cfg.max_delay_ms = 1000
  /\ res.cfg.backoff_multiplier = 3
  /\ res.out.sleeps = <<500, 1000, 1000, 1000>>

\* C19: on_success increments the counter; when the counter reaches the
\* threshold 5, current becomes min(max, floor(current * 1.25)) and the counter
\* 0, unless that leaves current as it is: then only the counter moves.
C19_GrowthAfterFive ==
  (res.phase = "cm" /\ res.op = "on_success") =>
    LET b == res.before
        s == b.succ + 1
        grown == Min(b.max, (b.current * 5) \div 4)
    IN /\ cm.current = IF s >= 5 THEN grown ELSE b.current
       /\ cm.succ = IF s >= 5 /\ grown # b.current THEN 0 ELSE s
       /\ cm.min = b.min /\ cm.max = b.max
       /\ (b.current = 1000 /\ b.max = 2000 /\ b.succ = 4) =>
            (cm.current = 1250 /\ cm.succ = 0)

\* the fifth on_success in a row took a manager from 1000 to 1250
C19_Grew ==
  /\ res.phase = "cm" /\ res.op = "on_success"
  /\ res.before.current = 1000 /\ res.before.succ = 4 /\ res.before.max = 2000
  /\ cm.current = 1250 /\ cm.succ = 0

\* C20: on_rpc_error with a message of the chunk-size vocabulary sets current
\* to max(min, current / 2) and the counter to 0, whatever current is; any
\* other message changes nothing.
C20_HalvesAndResets ==
  (res.phase = "cm" /\ res.op = "on_rpc_error") =>
    IF res.arg \in {"response size exceeded", "block range is too large",
                    "request timeout"}
      THEN /\ cm.current = Max(res.before.min, res.before.current \div 2)
           /\ cm.succ = 0
      ELSE cm = res.before

\* a manager already at min kept its counter through a chunk-size error
C20_CounterKeptAtMin ==
  /\ res.phase = "cm" /\ res.op = "on_rpc_error"
  /\ res.arg = EResponseSize
  /\ res.before.current = res.before.min
  /\ cm.current = cm.min /\ cm.succ > 0

\* C21 (as stated): whatever the initial chunk size, current stays within
\* 100 and 2 * initial.
C21_WithinFixedBounds == 
  res.phase = "shared" => (100 <= cm.current /\ cm.current <= 2 * cm.initial)

\* C21 (amended): current stays between min(initial, 100) and 2 * initial,
\* and so within [100, 2 * initial] when initial >= 100; min and max keep the
\* values given at construction.
C21_WithinBoundsFromInitial ==
  res.phase = "shared" =>
    /\ Min(cm.initial, 100) <= cm.current /\ cm.current <= 2 * cm.initial
    /\ cm.initial >= 100 => (100 <= cm.current /\ cm.current <= 2 * cm.initial)
    /\ cm.min = 100 /\ cm.max = 2 * cm.initial
    /\ \A t \in Tasks :
         res.th[t].pc = "store" =>
           (Min(cm.initial, 100) <= res.th[t].new /\ res.th[t].new <= cm.max)

\* one task is about to store a size it computed from a value that the other
\* task has replaced since
C21_StaleStore ==
  /\ res.phase = "shared"
  /\ cm.initial = 120 /\ cm.current = 100
  /\ res.th["s1"].pc = "store" /\ res.th["s1"].new = 240

C23_PauseSetsOnly ==
  /\ [](LET app == [paused |-> paused, status |-> status, index |-> index,
                    pending_reindex |-> pending_reindex,
                    last_block |-> last_block, head |-> head]
            pause(a) == [a EXCEPT !.paused = TRUE, !.status = "paused"]
        IN pause(pause(app)) = pause(app))
  /\ [][/\ (api = "idle" /\ api' = "pause") =>
            /\ paused'
            /\ UNCHANGED <<status, index, pending_reindex, last_block, head>>
            /\ UNCHANGED <<conf, folVars, runVars, db, cm, dec, calls, histVars>>
        /\ (api = "pause" /\ api' = "idle" /\ fpc' # "crashed") =>
            /\ status' = "paused"
            /\ UNCHANGED <<paused, index, pending_reindex, last_block, head>>
            /\ UNCHANGED <<conf, folVars, runVars, db, cm, dec, calls, histVars>>
        /\ (api = "idle" /\ api' = "pause" /\ paused) =>
            UNCHANGED <<paused, status, index, pending_reindex, last_block, head>>
        /\ (api = "pause" /\ api' = "idle" /\ fpc' # "crashed"
              /\ status = "paused") =>
            UNCHANGED <<paused, status, index, pending_reindex, last_block, head>>
       ]_vars

\* a second pause call is under way on a state the first one left, with a
\* work unit installed
C23_PausedTwice ==
  api = "pause" /\ paused /\ status = "paused" /\ index.some

\* C24: the resume handler clears the paused flag (its first step) and then
\* sets status to Reindexing if index holds a work unit with is_reindex, and
\* to Running otherwise (its second step); neither step changes index,
\* pending_reindex, last_block, head, the table or any local of the follower
\* and the supervisor.
C24_ResumeSetsOnly ==
  [][/\ (api = "idle" /\ api' = "resume") =>
         /\ ~paused'
         /\ UNCHANGED <<status, index, pending_reindex, last_block, head>>
         /\ UNCHANGED <<conf, folVars, runVars, db, cm, dec, calls, histVars>>
     /\ (api = "resume" /\ api' = "idle" /\ fpc' # "crashed") =>
         /\ status' = IF index.some /\ index.is_reindex THEN "reindexing"
                      ELSE "running"
         /\ UNCHANGED <<paused, index, pending_reindex, last_block, head>>
         /\ UNCHANGED <<conf, folVars, runVars, db, cm, dec, calls, histVars>>
    ]_vars

\* a resume call has cleared the flag of a paused reindex and is about to
\* write the status
C24_ResumingReindex ==
  /\ api = "resume" /\ ~paused /\ status = "paused"
  /\ index.some /\ index.is_reindex

\* C25: a reindex request whose from and to are both present with from > to
\* is answered 400 and changes nothing: pending_reindex, index, status,
\* paused, last_block and head, the table and the locals of the follower and
\* the supervisor keep their values, and the handler has returned.
C25_RejectedUnchanged ==
  /\ [](\A b \in conf.bodies :
          (b.from > 0 /\ b.to > 0 /\ b.from > b.to) <=> b = RejectedBody)
  /\ [][/\ (res' # res /\ res'.code = 400) =>
            /\ api = "idle" /\ api' = "idle"
            /\ UNCHANGED <<pending_reindex, index, status, paused, last_block,
                           head>>
            /\ UNCHANGED <<conf, folVars, runVars, db, cm, dec, calls, histVars>>
        /\ (api = "idle" /\ api' = "reindex") =>
            /\ pending_reindex'.some
            /\ ~(pending_reindex'.from > 0 /\ pending_reindex'.to > 0
                   /\ pending_reindex'.from > pending_reindex'.to)
        /\ pending_reindex' # pending_reindex =>
            \/ api = "idle" /\ api' = "reindex"
            \/ ~pending_reindex'.some
       ]_vars

\* a request was answered 400 while the indexer was paused with a request
\* pending and a work unit installed
C25_RejectedWhilePaused ==
  /\ res = [phase |-> "http", code |-> 400]
  /\ api = "idle" /\ paused /\ pending_reindex.some /\ index.some

\* C26: an accepted reindex request is stored as pending_reindex with the
\* from, to and strategy of the body received (0 for an absent bound
\* or strategy "" for an absent name), current = 0 and
\* is_reindex = true, whatever was pending before, and then the handler
\* clears paused and answers 200; both steps change nothing else.  There is
\* one pending slot: the follower takes what the slot holds and installs
\* just that as index, so a request that an accepted request has replaced
\* is not the one taken.
C26_PendingOverwritten ==
  /\ [](track.lost.some => pending_reindex # track.lost)
  /\ [][/\ (api = "idle" /\ api' = "reindex") =>
            /\ res'.code = 0 /\ res'.body \in conf.bodies
            /\ ~(res'.body.from > 0 /\ res'.body.to > 0
                   /\ res'.body.from > res'.body.to)
            /\ pending_reindex' =
                 [some |-> TRUE, from |-> res'.body.from, to |-> res'.body.to,
                  current |-> 0, strategy |-> res'.body.strategy,
                  is_reindex |-> TRUE]
            /\ UNCHANGED <<paused, status, index, last_block, head>>
            /\ UNCHANGED <<conf, folVars, runVars, db, cm, dec, calls, histVars>>
        /\ (api = "reindex" /\ api' = "idle" /\ fpc' # "crashed") =>
            /\ ~paused' /\ res'.code = 200
            /\ UNCHANGED <<pending_reindex, status, index, last_block, head>>
            /\ UNCHANGED <<conf, folVars, runVars, db, cm, dec, calls, histVars>>
        /\ (fpc = "gate" /\ fpc' = "install") =>
            /\ req' = pending_reindex /\ req'.some
            /\ ~pending_reindex'.some
            /\ req' # track.lost
        /\ (fpc = "install" /\ fpc' = "unpause") =>
            index' = req /\ status' = "reindexing"
        /\ (req' # req /\ req'.some) => fpc = "gate" /\ fpc' = "install"
       ]_vars

\* the request naming s2 was replaced by the one naming zz while the indexer
\* was paused; the follower, woken up, has installed the latter
C26_SecondInstalled ==
  /\ track.lost = SomeIndex(0, 0, 0, "s2", TRUE)
  /\ index = SomeIndex(1, 0, 0, "zz", TRUE)
  /\ fpc = "unpause" /\ ~pending_reindex.some /\ api = "idle" /\ ~paused
  /\ status = "reindexing"

\* C27: when the reset handler returns, status = Running, index = None,
\* pending_reindex = None and paused = false, and its steps leave the table
\* and last_block as they are.
C27_ResetPostcondition ==
  [][/\ (api = "reset" /\ api' = "idle" /\ fpc' # "crashed") =>
         /\ status' = "running" /\ ~index'.some /\ ~pending_reindex'.some
         /\ ~paused'
         /\ db' = db /\ last_block' = last_block
     /\ (api = "idle" /\ api' = "reset") =>
         db' = db /\ last_block' = last_block
    ]_vars

\* C27 (amended): the lock section of the reset handler sets status =
\* Running, index = None and pending_reindex = None whatever they were, its
\* last step clears paused, and neither step changes the table, last_block,
\* head or any local of the follower and the supervisor.  When the handler
\* returns paused is false and no request is pending; status and index are
\* what the lock section wrote unless the follower or the supervisor has
\* written them since.
C27_ResetEffect ==
  [][/\ (api = "idle" /\ api' = "reset") =>
         /\ status' = "running" /\ ~index'.some /\ ~pending_reindex'.some
         /\ UNCHANGED <<paused, last_block, head>>
         /\ UNCHANGED <<conf, folVars, runVars, db, cm, dec, calls, histVars>>
     /\ (api = "reset" /\ api' = "idle" /\ fpc' # "crashed") =>
         /\ ~paused' /\ ~pending_reindex'.some
         /\ UNCHANGED <<status, index, pending_reindex, last_block, head>>
         /\ UNCHANGED <<conf, folVars, runVars, db, cm, dec, calls, histVars>>
     /\ (api = "reset" /\ api' = "reset") =>
         /\ UNCHANGED pending_reindex
         /\ (index' # index \/ status' # status \/ paused' # paused) =>
              (fpc' # fpc \/ rpc' # rpc)
    ]_vars

\* the lock section of reset has run during an active reindex, while the
\* indexer was paused: the run goes on with index = None
C27_ResetDuringReindex ==
  /\ api = "reset" /\ fpc = "rwait" /\ rpc = "join" /\ rforce
  /\ paused /\ ~index.some /\ status = "running" /\ db # {}

\* C28: the follower reads and clears pending_reindex in one step.  A request
\* is started (installed as index) only by the iteration that took it, each
\* take empties the slot that an accepted request had filled, and between
\* two takes only the handlers change the slot: a request stored after a
\* take stays pending until a later take, another accepted request or a reset.
C28_TakeAtomic ==
  [][/\ (fpc = "gate" /\ fpc' \in {"install", "resume"}) =>
         /\ req' = pending_reindex /\ ~pending_reindex'.some
         /\ fpc' = "install" <=> pending_reindex.some
     /\ (fpc' = "install" /\ fpc # "install") => fpc = "gate"
     /\ (fpc = "install" /\ fpc' \notin {"install", "crashed"}) =>
         index' = req /\ req.some /\ fpc' = "unpause"
     /\ (fpc \in {"install", "unpause"} /\ fpc' = fpc) => req' = req
     /\ (fpc = "unpause" /\ fpc' \notin {"unpause", "crashed"}) =>
         ~req'.some /\ fpc' \in {"rwait", "rdone"}
     /\ (pending_reindex' # pending_reindex /\ fpc' # "crashed") =>
           \/ fpc = "gate" /\ fpc' = "install"
           \/ api = "idle" /\ api' = "reindex" /\ pending_reindex'.some
           \/ api = "idle" /\ api' = "reset" /\ ~pending_reindex'.some
    ]_vars

\* the follower has taken the request for [.., 2] and not installed it yet,
\* and the request naming zz, stored since, is pending
C28_StoredAfterTake ==
  /\ fpc = "install" /\ req = SomeIndex(0, 2, 0, "", TRUE)
  /\ pending_reindex = SomeIndex(1, 0, 0, "zz", TRUE)
  /\ api = "idle"

\* C29: when the follower begins the reindex of the request it has taken,
\* with the strategies the request selects (all of them without a name), the
\* bounds are from = req.from if positive, else the least from_block of the
\* selected strategies, and to = req.to if positive, else the larger of the
\* follower's cursor and head - confirmations (0 if negative).  If from > to
\* (or no strategy is selected) no run is started; otherwise the first run
\* starts at from with the upper bound to, and every further run of the
\* same reindex has the same bounds.
C29_ResolvedBounds ==
  [][/\ (fpc = "unpause" /\ fpc' \notin {"unpause", "crashed"}) =>
         LET sel == {s \in Strategies : req.strategy \in {"", s}}
             f == IF req.from > 0 THEN req.from
                  ELSE SetMin({conf.from_block[s] : s \in sel})
         IN \E h \in conf.heads :
              LET safe == IF h >= Confirmations THEN h - Confirmations ELSE 0
                  t == IF req.to > 0 THEN req.to
                       ELSE IF last >= safe THEN last ELSE safe
              IN IF sel = {} \/ f > t
                   THEN /\ fpc' = "rdone" /\ rpc' = "idle" /\ rpc = "idle"
                        /\ db' = db /\ tasks' = tasks
                   ELSE /\ fpc' = "rwait" /\ rpc' = "check"
                        /\ rfrom' = f /\ rto' = t /\ cur' = f
                        /\ rbounds' = <<f, t>>
                        /\ Len(rstrats') = 1 /\ rstrats'[1] \in sel
                        /\ index.some =>
                             index'.from = f /\ index'.to = t
                               /\ index'.current = f
     /\ (fpc = "rwait" /\ fpc' = "rwait") =>
         /\ rbounds' = rbounds /\ rfrom' = rfrom /\ rto' = rto
         /\ rfrom = rbounds[1] /\ rto = rbounds[2]
         /\ rfrom <= cur /\ (rpc = "join" => cur <= end /\ end <= rto)
     /\ (rpc = "idle" /\ rpc' # "idle" /\ fpc' = "rwait") => fpc = "unpause"
    ]_vars

\* a request without bounds is running on [5, 5]: from is the least
\* from_block, to is the cursor, which lies beyond head - confirmations
C29_CursorBeyondHead ==
  /\ fpc = "rwait" /\ rpc = "join" /\ rforce
  /\ rbounds = <<5, 5>> /\ cur = 5 /\ end = 5
  /\ index = SomeIndex(5, 5, 5, "", TRUE)
  /\ last = 5

\* C30: in a reindex of a named strategy, the inner processor of that
\* strategy is invoked on every chunk dispatched.
C30_NamedInvokedOnEveryChunk ==
  (fpc = "rwait" /\ rpc = "join" /\ index.some /\ index.strategy \in Strategies)
    => \A s \in Strategies :
         tasks[s] = "todo" =>
           /\ s = index.strategy
           /\ end >= conf.from_block[s]
           /\ \A script \in Scripts :
                with_retry(script, 1, db, s, cur, end, TRUE).ranges
                  = {<<cur, end>>}

\* C30 (amended): a reindex runs the strategies the request selects (the one
\* it names, all of them without a name, none if the name is unknown), one
\* after another in vector order, each in a run of its own on the resolved
\* bounds with force_reindex = true, and goes to the next strategy only if
\* no interrupt is set when a run returns.  The chunks of a run are
\* consecutive from the lower bound and, when the run completes, end at the
\* upper bound.  On a chunk that does not lie wholly below the strategy's
\* from_block the inner processor is invoked on exactly the chunk, covered
\* or not; on a chunk wholly below from_block nothing is invoked or written.
\* No row of another strategy changes during a run.  When nothing is left to
\* run and no interrupt is set, index becomes None and status Running.
C30_ReindexRuns ==
  /\ [](fpc = "rwait" =>
          /\ rforce /\ Len(rstrats) = 1
          /\ \A s \in Strategies : tasks[s] # "none" => s = rstrats[1]
          /\ chunks # <<>> =>
               /\ chunks[1][1] = rfrom
               /\ \A i \in 1..(Len(chunks) - 1) :
                    chunks[i + 1][1] = chunks[i][2] + 1
               /\ chunks[Len(chunks)][2] <= rto
          /\ exit = "done" => chunks # <<>> /\ chunks[Len(chunks)][2] = rto
          /\ (rpc = "join" /\ tasks[rstrats[1]] = "todo"
                /\ end >= conf.from_block[rstrats[1]]) =>
               \A script \in Scripts :
                 with_retry(script, 1, db, rstrats[1], cur, end,
                            Force(rstrats[1])).ranges = {<<cur, end>>})
  /\ [][/\ (fpc = "unpause" /\ fpc' \notin {"unpause", "crashed"}) =>
            LET sel == IF req.strategy = "" THEN conf.names
                       ELSE SelectSeq(conf.names, LAMBDA n : n = req.strategy)
            IN IF sel = <<>>
                 THEN fpc' = "rdone" /\ rpc' = "idle" /\ db' = db
                 ELSE fpc' = "rwait" =>
                        /\ rstrats' = <<sel[1]>> /\ strats' = Tail(sel)
                        /\ rforce'
        /\ (fpc = "rwait" /\ rpc = "ret" /\ rpc' # "ret" /\ fpc' # "crashed") =>
            IF ~(paused \/ pending_reindex.some) /\ strats # <<>>
              THEN /\ fpc' = "rwait" /\ rpc' = "check"
                   /\ rstrats' = <<Head(strats)>> /\ strats' = Tail(strats)
                   /\ rfrom' = rbounds[1] /\ rto' = rbounds[2] /\ rforce'
                   /\ cur' = rbounds[1]
              ELSE fpc' = "rdone" /\ rpc' = "idle" /\ strats' = <<>>
        /\ (fpc = "rwait" /\ fpc' # "crashed") =>
            /\ \A s \in Strategies \ {rstrats[1]} :
                 RowsOf(db', s) = RowsOf(db, s)
            /\ \A s \in Strategies :
                 (rpc = "join" /\ tasks[s] = "todo" /\ tasks'[s] = "done"
                   /\ end < conf.from_block[s]) =>
                   db' = db /\ cm' = cm /\ unitFailed' = unitFailed
        /\ (fpc = "rdone" /\ fpc' \notin {"rdone", "crashed"}) =>
            /\ UNCHANGED <<index, status, db>>
            /\ fpc' = IF paused \/ pending_reindex.some THEN "gate" ELSE "rclear"
        /\ (fpc = "rclear" /\ fpc' \notin {"rclear", "crashed"}) =>
            ~index'.some /\ status' = "running" /\ fpc' = "gate"
       ]_vars

\* the reindex of s2 over the covered range [2, 3]: the task of its chunk
\* has failed, and s1 has its row
C30_CoveredInvoked ==
  /\ fpc = "rwait" /\ rpc = "join" /\ rstrats = <<"s2">> /\ strats = <<>>
  /\ index = SomeIndex(2, 3, 2, "s2", TRUE)
  /\ cur = 2 /\ end = 3 /\ tasks = [s \in {"s1", "s2"} |->
                                     IF s = "s2" THEN "done" ELSE "none"]
  /\ db = {[name |-> "s1", from_block |-> 2, to_block |-> 3],
           [name |-> "s2", from_block |-> 2, to_block |-> 3]}
  /\ unitFailed = {"s2"}

\* C31: the cursor starts at the least from_block.  When the follower, with
\* no work unit to resume, follows the head with cursor L and safe = head -
\* confirmations (0 if negative): if L < safe it installs index = {from L + 1,
\* to safe, current L + 1, no strategy, is_reindex false} and starts a run of
\* all strategies on [L + 1, safe] without force_reindex; otherwise it starts
\* no run, writes no row and clears index.  A pass that completes without
\* interrupt moves the cursor and last_block to the value returned.
C31_FollowHead ==
  /\ last = SetMin({conf.from_block[s] : s \in DOMAIN conf.from_block})
  /\ [][/\ (/\ fpc = "resume" /\ fpc' \notin {"resume", "crashed"}
             /\ ~(/\ index.some /\ ~index.is_reindex
                  /\ index.current > 0 /\ index.current < index.to)) =>
            \E h \in conf.heads :
              LET safe == IF h >= Confirmations THEN h - Confirmations ELSE 0
              IN /\ head' = h /\ last' = last
                 /\ IF last < safe
                      THEN /\ index' = [some |-> TRUE, from |-> last + 1,
                                        to |-> safe, current |-> last + 1,
                                        strategy |-> "", is_reindex |-> FALSE]
                           /\ fpc' = "fwait" /\ rpc' = "check"
                           /\ rfrom' = last + 1 /\ rto' = safe
                           /\ cur' = last + 1
                           /\ rstrats' = conf.names /\ ~rforce'
                      ELSE /\ ~index'.some
                           /\ fpc' = "gate" /\ rpc' = "idle" /\ rpc = "idle"
                           /\ db' = db
        /\ (fpc = "commit" /\ fpc' \notin {"commit", "crashed"}) =>
            /\ last' = ret.val /\ last_block' = ret.val /\ ~index'.some
            /\ last' >= last
        /\ (last' # last /\ fpc' # "crashed") => fpc = "commit"
       ]_vars

\* after one follow cycle from an empty table with head 7: both rows are
\* [2, 3] and last_block = 3
C31_OneCycle ==
  /\ fpc = "gate" /\ last = 3 /\ last_block = 3 /\ head = 7 /\ ~index.some
  /\ db = {[name |-> "s1", from_block |-> 2, to_block |-> 3],
           [name |-> "s2", from_block |-> 2, to_block |-> 3]}
  /\ status = "running" /\ ~paused /\ ~pending_reindex.some
  /\ res = ResOff

(***************************************************************************)
(* The follower under a fair scheduler: the runtime keeps polling the      *)
(* follower, the supervisor and the tasks, every attempt of a task ends,   *)
(* and the head queries succeed (the follower does not exit).  The calls   *)
(* are POST /api/reindex and POST /api/pause.                              *)
(***************************************************************************)
\* bodies of the reindex requests: every strategy with default bounds, and a
\* strategy name that no configured strategy has
LiveBodies == {[from |-> 0, to |-> 0, strategy |-> ""],
               [from |-> 1, to |-> 0, strategy |-> "zz"]}
\* the request stored for a body: IndexState { from, to, current: 0, strategy,
\* is_reindex: true }
PendingOf(b) == SomeIndex(b.from, b.to, 0, b.strategy, TRUE)

InitLiveSpec ==
  /\ conf = [names |-> FollowNames, from_block |-> FollowFrom,
             chunk_size |-> TwoChunk, heads |-> TwoHeads,
             bodies |-> LiveBodies, track |-> FALSE]
  /\ InitApp /\ InitRun /\ InitHist
  /\ fpc = "gate"
  /\ last = InitialLast(conf.from_block)
  /\ req = NoIndex
  /\ strats = <<>>
  /\ rbounds = <<0, 0>>
  /\ db = {}
  /\ cm = IndexerConfigNew(TwoChunk)
  /\ dec = DecOff
  /\ calls = 0
  /\ res = ResOff

\* the follower whose head queries succeed
FollowerLive ==
  \/ FGateTake \/ FInstall \/ FBeginReindex \/ FRWait \/ FRDone \/ FRClear
  \/ FResume \/ FFollow \/ FWait \/ FCommit

NextLive ==
  /\ \/ (Supervisor \/ FollowerLive) /\ UNCHANGED res
     \/ \E b \in conf.bodies : Reindex1(b)
     \/ Reindex2
     \/ Pause1 \/ Pause2
  /\ Track

SpecLive ==
  /\ InitLiveSpec
  /\ [][NextLive]_vars
  /\ WF_vars(Supervisor /\ Track /\ UNCHANGED res)
  /\ WF_vars(FollowerLive /\ Track /\ UNCHANGED res)

\* C32: no step of an API handler falls between the follower's take of
\* pending_reindex and its installation as index with status = Reindexing,
\* nor between the supervisor's interrupt test and its update of
\* index.current.
C32_NoHandlerBetween ==
  [][((fpc = "install" \/ rpc = "record") /\ fpc' # "crashed") =>
       UNCHANGED <<api, paused, status, index, pending_reindex>>
         \/ fpc' # fpc \/ rpc' # rpc]_vars

\* the lock section of reset has run after the follower took a request and
\* before it installed it
C32_ResetBetweenTakeAndInstall ==
  /\ fpc = "install" /\ req.some /\ api = "reset"
  /\ ~index.some /\ status = "running" /\ ~pending_reindex.some

(***************************************************************************)
(* The HTTP front of the control API: the CORS layer, the router and the   *)
(* auth middleware in front of the handlers, beside the follower of a      *)
(* deployment of one strategy.                                             *)
(***************************************************************************)
\* API_KEY as configured (its default), and the X-API-Key header of a request:
\* absent, equal to the configured key, or different
api_key == "changeme"
NoKey == "<absent>"
Keys == {NoKey, api_key, "wrong"}
ApiPaths == {"/api/status", "/api/pause", "/api/resume", "/api/reindex",
             "/api/reset"}
\* the requests received: each route with its method, the preflight of a
\* protected and of the public route, and a route called with the wrong
\* method; each of them with every key
Calls ==
  { <<"GET", "/health">>, <<"GET", "/api/status">>, <<"POST", "/api/pause">>,
    <<"POST", "/api/resume">>, <<"POST", "/api/reindex">>,
    <<"POST", "/api/reset">>, <<"OPTIONS", "/api/status">>,
    <<"OPTIONS", "/health">>, <<"GET", "/api/reset">> }
Requests == {[method |-> c[1], path |-> c[2], key |-> k] : c \in Calls, k \in Keys}
\* the deployment behind the API: one strategy that starts beyond the
\* confirmed head
ServeFrom == [s \in {"s1"} |-> 5]
\* bodies of POST /api/reindex sent to this deployment
ServeBodies == {[from |-> 2, to |-> 5, strategy |-> ""], RejectedBody}

\* faulty variant: the middleware lets every request through
auth_open(r) == "next"

\* auth: OPTIONS passes; otherwise the X-API-Key header must be present and
\* equal to app.api_key, else 401
auth(r) ==
  IF r.method = "OPTIONS" THEN "next"
  ELSE IF r.key # NoKey /\ r.key = api_key THEN "next"
  ELSE "unauthorized"

\* a response produced without running a state-changing handler
Answer(code) ==
  /\ Respond(code)
  /\ UNCHANGED appVars
  /\ ApiFrame

\* get(..) / post(..): the method router of a route
MethodIs(r, m, handler) == IF r.method = m THEN handler ELSE Answer(405)

\* router_with_dashboard: the CORS layer wraps the whole router and answers
\* OPTIONS itself; /health is public; the routes nested under /api sit
\* behind the auth middleware
Serve(r) ==
  /\ Serving /\ api = "idle"
  /\ IF r.method = "OPTIONS" THEN Answer(200)
     ELSE IF r.path = "/health" THEN MethodIs(r, "GET", Answer(200))
     ELSE IF auth(r) # "next" THEN Answer(401)
     ELSE IF r.path = "/api/status" THEN MethodIs(r, "GET", Answer(200))
     ELSE IF r.path = "/api/pause" THEN MethodIs(r, "POST", Pause1)
     ELSE IF r.path = "/api/resume" THEN MethodIs(r, "POST", Resume1)
     ELSE IF r.path = "/api/reindex"
       THEN MethodIs(r, "POST", \E b \in conf.bodies : Reindex1(b))
     ELSE MethodIs(r, "POST", Reset1)

InitServeSpec ==
  /\ conf = [names |-> FollowNames, from_block |-> ServeFrom,
             chunk_size |-> TwoChunk, heads |-> TwoHeads,
             bodies |-> ServeBodies, track |-> TRUE]
  /\ InitApp /\ InitRun /\ InitHist
  /\ fpc = "gate"
  /\ last = InitialLast(conf.from_block)
  /\ req = NoIndex
  /\ strats = <<>>
  /\ rbounds = <<0, 0>>
  /\ db = {}
  /\ cm = IndexerConfigNew(TwoChunk)
  /\ dec = DecOff
  /\ calls = 0
  /\ res = ResOff

NextServe ==
  /\ \/ (Supervisor \/ Follower) /\ UNCHANGED res
     \/ \E r \in Requests : Serve(r)
     \/ Pause2 \/ Resume2 \/ Reindex2 \/ Reset2
  /\ Track

SpecServe == InitServeSpec /\ [][NextServe]_vars

\* C33: every non-OPTIONS request to an /api/* route whose X-API-Key header
\* is missing or differs from the configured key is refused by the auth
\* middleware, is answered 401 and changes nothing but the response (so the
\* state does not depend on the unauthenticated requests received); an
\* OPTIONS request passes the middleware without the header and is answered
\* 2xx, and GET /health is answered 200 whatever its key.
C33_AuthGate ==
  /\ [](\A r \in Requests :
         /\ (r.method # "OPTIONS" /\ r.path \in ApiPaths /\ r.key # api_key) =>
              auth(r) = "unauthorized"
         /\ r.method = "OPTIONS" => auth(r) = "next")
  /\ [][\A r \in Requests :
          /\ (r.method # "OPTIONS" /\ r.path \in ApiPaths /\ r.key # api_key) =>
               (Serve(r) =>
                  /\ res'.code = 401
                  /\ UNCHANGED <<conf, appVars, folVars, runVars, db, cm, dec,
                                 calls, histVars, track>>)
          /\ r.method = "OPTIONS" =>
               (Serve(r) =>
                  /\ res'.code \in 200..299
                  /\ UNCHANGED <<conf, appVars, folVars, runVars, db, cm, dec,
                                 calls, histVars, track>>)
          /\ (r.method = "GET" /\ r.path = "/health") =>
               (Serve(r) => res'.code = 200)
      ]_vars

\* a request was answered 401 while a reindex was running with a further
\* request pending
C33_RejectedDuringReindex ==
  /\ res.phase = "http" /\ res.code = 401
  /\ status = "reindexing" /\ index.some /\ index.is_reindex
  /\ pending_reindex.some /\ rpc = "join"

\* C34 (as stated): the processor of a strategy is never invoked on a range
\* that starts below the from_block of the strategy.
C34_NeverBelowFromBlock ==
  \A s \in Strategies : \A iv \in okRanges[s] : iv[1] >= from_block(s)

\* C34 (amended): a strategy is skipped on a chunk exactly when its
\* from_block lies beyond the end of the chunk; otherwise it is invoked on
\* the whole chunk [cur, end], so every range it is invoked on ends at or
\* above its from_block, but may start below it.
C34_InvokedOnWholeChunk ==
  /\ [](rpc = "join" =>
         \A s \in Strategies : TaskSkips(s, cur, end) <=> from_block(s) > end)
  /\ [](\A s \in Strategies : \A iv \in okRanges[s] : iv[2] >= from_block(s))
  /\ [][\A s \in Strategies :
          (rpc = "join" /\ tasks[s] = "todo" /\ tasks'[s] = "done") =>
            IF from_block(s) > end
              THEN UNCHANGED <<db, cm, okRanges, unitFailed>>
              ELSE okRanges'[s] \in {okRanges[s], AddIv(okRanges[s], cur, end)}
      ]_vars

\* the processor of s2 has succeeded on a chunk that straddles its from_block
C34_StraddlingChunkInvoked ==
  /\ rpc = "join" /\ tasks["s2"] = "done"
  /\ cur < from_block("s2") /\ from_block("s2") <= end
  /\ <<cur, end>> \in okRanges["s2"]

\* C35: no strategy is invoked on, and no row of indexed_ranges extends to, a
\* block above the highest safe head observed so far (which is at most the
\* safe head of the highest chain head the provider reports).
C35_WithinSafeHead ==
  LET top == Safe(SetMax(conf.heads))
  IN /\ \A row \in db : row.to_block <= top
     /\ \A s \in Strategies : \A iv \in okRanges[s] : iv[2] <= top

\* a reindex with an explicit `to` has been completed and its row persisted
\* beyond the safe head
C35_RowBeyondSafeHead ==
  /\ fpc = "gate" /\ ~index.some /\ head = 7
  /\ \E row \in db : row.to_block = 5

\* C36: whenever status is Reindexing the work unit in index is a reindex; in
\* particular status is not Reindexing while the follower runs a follow or
\* resume pass.
C36_StatusMatchesMode ==
  /\ status = "reindexing" => index.some /\ index.is_reindex
  /\ fpc \in {"fwait", "commit"} => status # "reindexing"

\* a follow pass is dispatching chunks while the status reads Reindexing
C36_FollowingAsReindexing ==
  /\ fpc = "fwait" /\ rpc = "join" /\ status = "reindexing"
  /\ index.some /\ ~index.is_reindex /\ ~paused /\ ~pending_reindex.some
  /\ api = "idle"

\* C37: on_success and on_rpc_error take effect atomically; in particular the
\* store of a growth raises current from the value it replaces, so it never
\* overwrites a down-shift that another task has made since the load.
C37_GrowthFromCurrent ==
  [][\A t \in Tasks :
       (/\ res.th[t].pc = "store" /\ res'.th[t].pc = "zero"
        /\ res.th[t].new > cm.current) =>
         res.th[t].new = grown_size(cm.current, cm.max)]_vars

\* s1 loaded 120 and is about to store its growth, 150, after s2 has halved
\* the size to 100 and completed its call
C37_GrowthOverDownShift ==
  /\ res.phase = "shared"
  /\ cm.initial = 120 /\ cm.current = 100 /\ cm.succ = 0
  /\ res.th["s1"] = [pc |-> "store", new |-> 150]
  /\ res.th["s2"] = NoCall

\* C38: once reset has returned (status = Running, index = None, no handler
\* in flight), the next checkpoint of the reindex run in progress stops the
\* run, so no further chunk of the reset work unit is dispatched.
C38_ResetStopsRun ==
  [][(/\ fpc = "rwait" /\ rpc = "check" /\ rpc' = "record"
      /\ status = "running" /\ ~index.some /\ api = "idle") => intr']_vars

\* the reindex run has dispatched its second chunk while the state reads
\* Running with no work unit
C38_ReindexGoesOn ==
  /\ fpc = "rwait" /\ rpc = "join" /\ Len(chunks) = 2 /\ rforce
  /\ status = "running" /\ ~index.some /\ ~paused /\ ~pending_reindex.some
  /\ api = "idle"

\* C39 (as stated): once pause has returned and no handler runs, the paused
\* flag stays set for as long as the process lives.
C39_PauseKept ==
  [][(/\ paused /\ status = "paused" /\ api = "idle" /\ api' = "idle"
      /\ fpc' # "crashed") => paused']_vars

\* C39 (amended): the flag is cleared only by a handler or by the follower
\* consuming a reindex request it has taken; with no request pending or
\* taken the flag stays set and at most one chunk is dispatched under it.
C39_ClearedOnlyForReindex ==
  /\ [][(paused /\ ~paused' /\ fpc' # "crashed") =>
          \/ api = "reindex" /\ api' = "idle"
          \/ /\ fpc = "unpause" /\ fpc' # "unpause"
             /\ req.some /\ req.is_reindex /\ index = req]_vars
  /\ [][(/\ paused /\ api = "idle" /\ api' = "idle" /\ fpc' # "crashed"
         /\ ~pending_reindex.some /\ fpc \notin {"install", "unpause"}) =>
          paused']_vars
  /\ [](( /\ paused /\ ~pending_reindex.some
          /\ fpc \notin {"install", "unpause"}) => track.intrChunks <= 1)

\* the reindex is dispatching a chunk with the flag cleared by the follower,
\* after a pause that returned once the request had been installed
C39_PauseOverridden ==
  /\ ~paused /\ status = "paused" /\ api = "idle"
  /\ fpc = "rwait" /\ rpc = "join"
  /\ index.some /\ index.is_reindex /\ ~pending_reindex.some

====
